---- MODULE Spec2Model ----
(***************************************************************************)
(* A model of embex's Index & Retrieval Engine: the History Store          *)
(* (src/embex/core/history_store.py), the full-scan driver                 *)
(* (src/embex/core/scanner.py), the event-driven driver                    *)
(* (src/embex/core/watcher.py) and the Vector Index adapter                *)
(* (src/embex/core/vector_store.py).                                       *)
(*                                                                         *)
(* A file content is a sequence of lines; a line is one of the tokens of   *)
(* Lines.  A path is a sequence of characters.                             *)
(***************************************************************************)
EXTENDS Integers, Sequences, FiniteSets, TLC

\* Highest snapshot version a behaviour of the model creates.
MaxVersion == 3

\* No path, no content (Python's None where a path or a content is expected).
None == << >>

\* ------------------------------------------------------------------------
\* Files and contents
\* ------------------------------------------------------------------------

\* Two eligible files (relative POSIX paths), one of them in a folder.
\* A path is its sequence of characters.
PathA == <<"a">>
PathSB == <<"s", "/", "b">>
Paths == {PathA, PathSB}

\* A content is the sequence of its lines (it does not end in a newline).
\* Line tokens: " " is a whitespace-only line, "x" a top-level statement,
\* "d" the first line of a function definition and "i" an indented line
\* that continues the definition above it; "c" is the first line of a class
\* definition, "m" the first line of a definition nested in the one above
\* it (a method of the class, an inner function), and "n" a line that holds
\* a whole definition with a whole definition nested in it.
Blank == " "

\* Three contents: whitespace only, one statement, a statement followed by
\* a two-line function.
ContentBlank == <<" ">>
ContentOne == <<"x">>
ContentThree == <<"x", "d", "i">>
Contents == {ContentBlank, ContentOne, ContentThree}

\* ChunkingConfig.chunk_size and .overlap, scaled down from 200 and 20.
ChunkSize == 2
Overlap == 0

\* hashlib.sha256(content.encode("utf-8")).hexdigest(): the digest is taken
\* to be collision free, so it is a tagged copy of the content it digests.
_checksum(content) == <<"sha256", content>>

\* ------------------------------------------------------------------------
\* Paths
\* ------------------------------------------------------------------------

\* The position of the last "/" of a path (0 when it has none).
RECURSIVE LastSlash(_)
LastSlash(path) ==
    IF path = << >> THEN 0
    ELSE IF path[Len(path)] = "/" THEN Len(path)
    ELSE LastSlash(SubSeq(path, 1, Len(path) - 1))

\* utils.ignore.get_folder: the relative path without its last part, "."
\* for a file at the project root.
get_folder(rel) ==
    IF LastSlash(rel) = 0 THEN <<".">> ELSE SubSeq(rel, 1, LastSlash(rel) - 1)

\* utils.ignore.should_ignore: the Eligibility Filter is external; the
\* model's eligible paths are Paths.
should_ignore(path) == path \notin Paths

\* The order sorted() gives the collected paths: part by part, which is
\* character by character with "/" before every other character.
CharRank(ch) == IF ch = "/" THEN 0 ELSE IF ch = "a" THEN 1
                ELSE IF ch = "b" THEN 2 ELSE IF ch = "s" THEN 3 ELSE 4

RECURSIVE PathLess(_, _)
PathLess(p, q) ==
    IF q = << >> THEN FALSE
    ELSE IF p = << >> THEN TRUE
    ELSE IF CharRank(Head(p)) # CharRank(Head(q))
         THEN CharRank(Head(p)) < CharRank(Head(q))
    ELSE PathLess(Tail(p), Tail(q))

RECURSIVE SortPaths(_)
SortPaths(S) ==
    IF S = {} THEN << >>
    ELSE LET m == CHOOSE p \in S : \A q \in S \ {p} : PathLess(p, q)
         IN <<m>> \o SortPaths(S \ {m})

\* ------------------------------------------------------------------------
\* Chunker (core/chunker.py)
\* ------------------------------------------------------------------------
Min(a, b) == IF a < b THEN a ELSE b
Max(a, b) == IF a > b THEN a ELSE b

\* A chunker that takes no content for blank.
NeverBlank(content) == FALSE

\* not content or not content.strip()
IsBlankContent(content) == \A i \in 1..Len(content) : content[i] = Blank

\* lines[start:end] of Python, for 0 <= start
Slice(lines, start, end) == SubSeq(lines, start + 1, Min(end, Len(lines)))

RawChunk(lines, idx, start, end) ==
    [text |-> Slice(lines, start, end), index |-> idx,
     start_line |-> start + 1, end_line |-> end]

\* A step that can be zero.
StepStalls(chunk_size, overlap) == Max(chunk_size - overlap, 0)

\* A step that passes over a line.
StepSkips(chunk_size, overlap) == chunk_size + 1

\* step = max(chunk_size - overlap, 1)
Step(chunk_size, overlap) == Max(chunk_size - overlap, 1)

\* The while loop of chunk_content, entered with start < total.
RECURSIVE ChunkLoop(_, _, _, _, _, _)
ChunkLoop(lines, chunk_size, overlap, start, idx, chunks) ==
    LET total == Len(lines)
        step == Step(chunk_size, overlap)
        end == Min(start + chunk_size, total)
        chunks1 == Append(chunks, RawChunk(lines, idx, start, end))
        start1 == start + step
    IN IF start1 < total /\ (total - start1) <= overlap
       THEN Append(chunks1, RawChunk(lines, idx + 1, start1, total))
       ELSE IF start1 < total
            THEN ChunkLoop(lines, chunk_size, overlap, start1, idx + 1, chunks1)
            ELSE chunks1

chunk_content(content, chunk_size, overlap) ==
    IF content = << >> \/ IsBlankContent(content) THEN << >>
    ELSE ChunkLoop(content, chunk_size, overlap, 0, 0, << >>)

\* ------------------------------------------------------------------------
\* Structural Chunker (core/smart_chunker.py)
\* ------------------------------------------------------------------------

\* The last line (0-based) of the run of lines of kinds inner that follows
\* line i (0-based); i when there is none.
RECURSIVE RunEnd(_, _, _)
RunEnd(lines, i, inner) ==
    IF i + 2 <= Len(lines) /\ lines[i + 2] \in inner
    THEN RunEnd(lines, i + 1, inner)
    ELSE i

\* The last line (0-based) of the definition that starts at line i (0-based):
\* a top-level definition holds the nested definitions and the indented
\* lines below it, a nested one the indented lines below it.
NodeEnd(lines, i) ==
    IF lines[i + 1] \in {"c", "d"} THEN RunEnd(lines, i, {"m", "i"})
    ELSE IF lines[i + 1] = "m" THEN RunEnd(lines, i, {"i"})
    ELSE i

\* The definition nodes of the Structural Parser's tree that start at line i
\* (0-based), a node before the nodes nested in it.  start and end are the
\* 0-based start_point[0] and end_point[0].
NodesAt(lines, i) ==
    LET node(type) == [start |-> i, end |-> NodeEnd(lines, i), type |-> type]
    IN IF lines[i + 1] = "c" THEN <<node("class_definition")>>
       ELSE IF lines[i + 1] \in {"d", "m"} THEN <<node("function_definition")>>
       ELSE IF lines[i + 1] = "n"
            THEN <<node("function_definition"), node("function_definition")>>
       ELSE << >>

\* _walk_and_collect over the Structural Parser's tree: every definition
\* node, nested ones included, a node before the nodes nested in it (the
\* stack pops a node before it pushes its children) and the last sibling
\* first.
RECURSIVE WalkAndCollect(_, _)
WalkAndCollect(lines, i) ==
    IF i >= Len(lines) THEN << >>
    ELSE WalkAndCollect(lines, i + 1) \o NodesAt(lines, i)

\* nodes.sort(key=lambda n: n.start_point[0]): a stable sort.
RECURSIVE InsertNode(_, _)
InsertNode(sorted, n) ==
    IF sorted = << >> THEN <<n>>
    ELSE IF n.start < Head(sorted).start THEN <<n>> \o sorted
    ELSE <<Head(sorted)>> \o InsertNode(Tail(sorted), n)

RECURSIVE SortNodes(_)
SortNodes(nodes) ==
    IF nodes = << >> THEN << >>
    ELSE InsertNode(SortNodes(SubSeq(nodes, 1, Len(nodes) - 1)),
                    nodes[Len(nodes)])

\* A strip that keeps blank lines.
KeepLines(lines) == lines

\* "\n".join(lines).strip(): the lines without leading and trailing blank lines
RECURSIVE StripLines(_)
StripLines(lines) ==
    IF lines = << >> THEN << >>
    ELSE IF Head(lines) = Blank THEN StripLines(Tail(lines))
    ELSE IF lines[Len(lines)] = Blank
         THEN StripLines(SubSeq(lines, 1, Len(lines) - 1))
    ELSE lines

_node_kind(node_type) ==
    IF node_type = "class_definition" THEN "class" ELSE "function"

\* The for loop of smart_chunk over the sorted nodes, then the trailing code.
RECURSIVE SmartLoop(_, _, _, _)
SmartLoop(lines, nodes, covered_up_to, chunks) ==
    IF nodes = << >>
    THEN LET trailing == StripLines(Slice(lines, covered_up_to, Len(lines)))
         IN IF covered_up_to < Len(lines) /\ trailing # << >>
            THEN Append(chunks, [text |-> trailing,
                                 start_line |-> covered_up_to + 1,
                                 end_line |-> Len(lines),
                                 kind |-> "module"])
            ELSE chunks
    ELSE LET node == Head(nodes)
             preamble == StripLines(Slice(lines, covered_up_to, node.start))
             chunks1 == IF node.start > covered_up_to /\ preamble # << >>
                        THEN Append(chunks, [text |-> preamble,
                                             start_line |-> covered_up_to + 1,
                                             end_line |-> node.start,
                                             kind |-> "module"])
                        ELSE chunks
             chunks2 == Append(chunks1,
                               [text |-> Slice(lines, node.start, node.end + 1),
                                start_line |-> node.start + 1,
                                end_line |-> node.end + 1,
                                kind |-> _node_kind(node.type)])
         IN SmartLoop(lines, Tail(nodes), node.end + 1, chunks2)

\* A fallback that takes the whole content as one chunk.
FallbackWhole(content, chunk_size, overlap) ==
    <<[text |-> content, start_line |-> 1, end_line |-> Len(content),
       kind |-> "chunk"]>>

\* _fallback_chunk
_fallback_chunk(content, chunk_size, overlap) ==
    LET raw == chunk_content(content, chunk_size, overlap)
    IN [i \in 1..Len(raw) |->
           [text |-> raw[i].text, start_line |-> raw[i].start_line,
            end_line |-> raw[i].end_line, kind |-> "chunk"]]

\* smart_chunk.  parser_ok: a Structural Parser is available for the file's
\* extension and parses the content without throwing.
smart_chunk(content, parser_ok, chunk_size, overlap) ==
    IF ~parser_ok THEN _fallback_chunk(content, chunk_size, overlap)
    ELSE LET nodes == WalkAndCollect(content, 0)
         IN IF nodes = << >>
            THEN <<[text |-> content, start_line |-> 1,
                    end_line |-> Len(content), kind |-> "module"]>>
            ELSE SmartLoop(content, SortNodes(nodes), 0, << >>)

\* ------------------------------------------------------------------------
\* History Store state (one SQLite connection's view of the database)
\* ------------------------------------------------------------------------
VARIABLES
    file_registry,     \* table file_registry: file_path -> [current_version]
    snapshots,         \* table snapshots: set of rows
    embed_checksums,   \* table embed_checksums: file_path -> checksum
    lastCall,          \* the History Store call made last, with its result
    listing,           \* the paths the last list_files_in_folder call returned
    files,             \* the project tree: path -> content, for the files that exist
    chroma,            \* the Vector Index: the entries of all its collections
    session,           \* the command that is running (a scan, a watch) and its state
    lastOp,            \* the per-file operation made last, with its outcome
    lastAsk,           \* the ask call made last, with its result
    lastChunk,         \* the chunker call made last, with its result
    memories,          \* table memories of memory.db: set of rows
    handler,           \* an EmbexEventHandler: the clock, _last_event, _lock
    threads            \* the frame of every thread that runs a call step by step

histVars == <<file_registry, snapshots, embed_checksums>>
indexVars == <<files, chroma, session, lastOp>>
vars == <<file_registry, snapshots, embed_checksums, lastCall, listing,
          files, chroma, session, lastOp, lastAsk, lastChunk, memories,
          handler, threads>>

\* follows: how the call relates to the call made just before it
\*   "restore": snapshot(p, getSnapshot(p, v)) right after a successful restoreTo(p, v)
\*   "repeat":  snapshot(p, c) right after a snapshot(p, c) that returned
\*   "other":   anything else
\* No command is running.  cfg: the EmbexConfig the command loaded; files, pos:
\* the scan's sorted file list and the number of files it has visited;
\* skipped, errors, chunks: skipped_count, errors_count, total_chunks;
\* last_event: the handler's _last_event, as the ticks of the clock since
\* the event accepted last for the path, DebounceTicks standing for "that
\* long ago or longer, or never".
_DEBOUNCE_SECONDS == 1

\* time.time() as the model reads it: in steps of half a second.
TicksPerSecond == 2
DebounceTicks == _DEBOUNCE_SECONDS * TicksPerSecond

NoConfig == [history_enabled |-> FALSE, strategy |-> "none"]

Idle == [mode |-> "idle", cfg |-> NoConfig, files |-> << >>, pos |-> 0,
         skipped |-> 0, errors |-> 0, chunks |-> 0,
         last_event |-> [p \in Paths |-> DebounceTicks]]

\* kind: "scan" (a full-scan visit), "created", "modified" or "deleted" (a
\* watcher event); outcome: how the operation ended; calls: the collaborator
\* calls it made.
NoOp == [kind |-> "none", path |-> None, is_directory |-> FALSE,
         outcome |-> "none", calls |-> {}, cause |-> "none"]

\* No ask call made yet.  results: what VectorStore.query returned; raised:
\* the exception ask ended with ("none" when it returned); calls: the
\* collaborator calls ask made, in order.
NoAsk == [top_k |-> 0, folder |-> None, threshold |-> 0, results |-> << >>,
          sources |-> << >>, relevant_count |-> 0, total_retrieved |-> 0,
          raised |-> "none", calls |-> << >>, failed |-> {}]

\* content: the content passed to snapshot; version: the version passed to
\* restoreTo, or returned by snapshot (0 when it raised); ok: the call
\* returned (snapshot) or returned True (restoreTo).
\* No chunker call yet.  applied: the chunker called ("loop": chunk_content
\* is in its while loop); raw: what chunk_content returned, or its chunks
\* so far; start: the start of its loop; smart: what smart_chunk returned.
NoChunk == [content |-> << >>, chunk_size |-> 0, overlap |-> 0,
            applied |-> "none", parser_ok |-> FALSE, raw |-> << >>,
            start |-> 0, smart |-> << >>]

\* The threads that call into one object at the same time.
Threads == {"t1", "t2"}

\* A thread that has no call to make yet.
NoFrame == [pc |-> "idle", path |-> None, now |-> 0, last |-> 0,
            ret |-> "none", ids |-> {}, chunks |-> << >>]
NoThreads == [t \in Threads |-> NoFrame]

\* EmbexEventHandler.__init__: no event seen, the lock free.  The clock
\* (time.time(), in ticks) is far from the 0 that _last_event.get defaults
\* to.  prior: what _last_event held before the events under study.
IdleHandler == [clock |-> DebounceTicks,
                _last_event |-> [p \in Paths |-> 0],
                _lock |-> "free",
                prior |-> 0,
                events |-> << >>,
                writes |-> 0]

NoCall == [op |-> "none", path |-> None, content |-> None, version |-> 0,
           ok |-> FALSE, follows |-> "other"]

\* The rows of snapshots WHERE file_path = ? AND version = ?
SnapshotRows(snaps, file_path, version) ==
    {s \in snaps : s.file_path = file_path /\ s.version = version}

\* INSERT INTO snapshots under UNIQUE(file_path, version): the row is added,
\* or sqlite3.IntegrityError is raised and the table is left as it was.
InsertSnapshotUnchecked(snaps, row) ==
    [snapshots |-> snaps \cup {row}, raised |-> FALSE]

InsertSnapshot(snaps, row) ==
    IF SnapshotRows(snaps, row.file_path, row.version) # {}
    THEN [snapshots |-> snaps, raised |-> TRUE]
    ELSE [snapshots |-> snaps \cup {row}, raised |-> FALSE]

\* HistoryStore.snapshot_file.  The UPDATE / INSERT of file_registry runs
\* before the INSERT of the snapshot row, inside the transaction sqlite3
\* opens implicitly; when the INSERT raises, nothing rolls the transaction
\* back, so the connection goes on seeing the registry row it wrote.
SnapshotFileNoCompare(reg, snaps, file_path, content) ==
    LET cs == _checksum(content)
        new_version == IF file_path \in DOMAIN reg
                       THEN reg[file_path].current_version + 1 ELSE 1
        reg1 == [p \in DOMAIN reg \cup {file_path} |->
                    IF p = file_path THEN [current_version |-> new_version]
                    ELSE reg[p]]
        ins == InsertSnapshot(snaps, [file_path |-> file_path,
                                      version |-> new_version,
                                      content |-> content,
                                      checksum |-> cs])
    IN [registry |-> reg1, snapshots |-> ins.snapshots,
        raised |-> ins.raised,
             version |-> IF ins.raised THEN 0 ELSE new_version]

SnapshotFileNoAdvance(reg, snaps, file_path, content) ==
    LET cs == _checksum(content)
        tracked == file_path \in DOMAIN reg
        current_version == IF tracked THEN reg[file_path].current_version ELSE 0
        snap == SnapshotRows(snaps, file_path, current_version)
        new_version == current_version + 1
        reg1 == [p \in DOMAIN reg \cup {file_path} |->
                    IF p = file_path /\ ~tracked
                    THEN [current_version |-> new_version]
                    ELSE reg[p]]
        ins == InsertSnapshot(snaps, [file_path |-> file_path,
                                      version |-> new_version,
                                      content |-> content,
                                      checksum |-> cs])
    IN IF tracked /\ snap # {} /\ (CHOOSE s \in snap : TRUE).checksum = cs
       THEN [registry |-> reg, snapshots |-> snaps, raised |-> FALSE,
             version |-> current_version]
       ELSE [registry |-> reg1, snapshots |-> ins.snapshots,
             raised |-> ins.raised,
             version |-> IF ins.raised THEN 0 ELSE new_version]

SnapshotFile(reg, snaps, file_path, content) ==
    LET cs == _checksum(content)
        tracked == file_path \in DOMAIN reg
        current_version == IF tracked THEN reg[file_path].current_version ELSE 0
        snap == SnapshotRows(snaps, file_path, current_version)
        new_version == current_version + 1
        reg1 == [p \in DOMAIN reg \cup {file_path} |->
                    IF p = file_path THEN [current_version |-> new_version]
                    ELSE reg[p]]
        ins == InsertSnapshot(snaps, [file_path |-> file_path,
                                      version |-> new_version,
                                      content |-> content,
                                      checksum |-> cs])
    IN IF tracked /\ snap # {} /\ (CHOOSE s \in snap : TRUE).checksum = cs
       THEN [registry |-> reg, snapshots |-> snaps, raised |-> FALSE,
             version |-> current_version]
       ELSE [registry |-> reg1, snapshots |-> ins.snapshots,
             raised |-> ins.raised,
             version |-> IF ins.raised THEN 0 ELSE new_version]

\* HistoryStore.get_snapshot
GetSnapshot(snaps, file_path, version) ==
    LET rows == SnapshotRows(snaps, file_path, version)
    IN IF rows = {} THEN None ELSE (CHOOSE s \in rows : TRUE).content

\* HistoryStore.get_latest_version
GetLatestVersion(reg, file_path) ==
    IF file_path \in DOMAIN reg THEN reg[file_path].current_version ELSE 0

\* HistoryStore.restore_to_version
RestoreToVersionUnchecked(reg, snaps, file_path, version) ==
    [registry |-> [p \in DOMAIN reg |->
                      IF p = file_path THEN [current_version |-> version]
                      ELSE reg[p]],
     ret |-> TRUE]

RestoreToVersion(reg, snaps, file_path, version) ==
    IF SnapshotRows(snaps, file_path, version) = {}
    THEN [registry |-> reg, ret |-> FALSE]
    ELSE [registry |-> [p \in DOMAIN reg |->
                           IF p = file_path THEN [current_version |-> version]
                           ELSE reg[p]],
          ret |-> TRUE]

\* ------------------------------------------------------------------------
\* SpecHistory: the History Store under any sequence of snapshot and
\* restoreTo calls
\* ------------------------------------------------------------------------
Init ==
    /\ file_registry = << >>
    /\ snapshots = {}
    /\ embed_checksums = << >>
    /\ lastCall = NoCall
    /\ listing = {}
    /\ files = << >>
    /\ chroma = {}
    /\ session = Idle
    /\ lastOp = NoOp
    /\ lastAsk = NoAsk
    /\ lastChunk = NoChunk
    /\ memories = {}
    /\ handler = IdleHandler
    /\ threads = NoThreads

Follows(p, c) ==
    IF /\ lastCall.op = "restore" /\ lastCall.path = p /\ lastCall.ok
       /\ c = GetSnapshot(snapshots, p, lastCall.version)
    THEN "restore"
    ELSE IF /\ lastCall.op = "snapshot" /\ lastCall.path = p
            /\ lastCall.content = c /\ lastCall.ok
         THEN "repeat"
         ELSE "other"

HSnapshot(p, c) ==
    LET r == SnapshotFile(file_registry, snapshots, p, c)
    IN /\ GetLatestVersion(r.registry, p) <= MaxVersion
       /\ file_registry' = r.registry
       /\ snapshots' = r.snapshots
       /\ lastCall' = [op |-> "snapshot", path |-> p, content |-> c,
                        version |-> r.version, ok |-> ~r.raised,
                        follows |-> Follows(p, c)]
       /\ UNCHANGED <<handler, threads, embed_checksums, listing, memories, lastAsk, lastChunk, indexVars>>

HRestore(p, v) ==
    LET r == RestoreToVersion(file_registry, snapshots, p, v)
    IN /\ file_registry' = r.registry
       /\ lastCall' = [op |-> "restore", path |-> p, content |-> None,
                        version |-> v, ok |-> r.ret, follows |-> "other"]
       /\ UNCHANGED <<handler, threads, snapshots, embed_checksums, listing, memories, lastAsk, lastChunk, indexVars>>

NextHistory ==
    \/ \E p \in Paths, c \in Contents : HSnapshot(p, c)
    \/ \E p \in Paths, v \in 1..(MaxVersion + 1) : HRestore(p, v)

SpecHistory == Init /\ [][NextHistory]_vars

\* ------------------------------------------------------------------------
\* SpecFolder: list_files_in_folder over a registry grown by snapshot_file
\* ------------------------------------------------------------------------

\* Tracked paths and folder prefixes are drawn from these character
\* sequences ("s/x", "S/x", "sx", "sr/x", "s_/x", "s/r/x"; "s", "S", "s_",
\* "s%", "sr", "s/r", "x", "").
FolderPaths ==
    {<<"s", "/", "x">>, <<"S", "/", "x">>, <<"s", "x">>,
     <<"s", "r", "/", "x">>, <<"s", "_", "/", "x">>,
     <<"s", "/", "r", "/", "x">>}

FolderPrefixes ==
    {<<"s">>, <<"S">>, <<"s", "_">>, <<"s", "%">>, <<"s", "r">>,
     <<"s", "/", "r">>, <<"x">>, << >>}

\* SQLite folds the 26 ASCII upper-case letters for LIKE.
Lower(ch) == IF ch = "S" THEN "s" ELSE IF ch = "R" THEN "r"
             ELSE IF ch = "X" THEN "x" ELSE ch

\* str.rstrip("/")
RECURSIVE RStripSlash(_)
RStripSlash(str) ==
    IF str # << >> /\ str[Len(str)] = "/"
    THEN RStripSlash(SubSeq(str, 1, Len(str) - 1))
    ELSE str

\* str.startswith(prefix), character for character
StartsWith(str, prefix) ==
    /\ Len(prefix) <= Len(str)
    /\ SubSeq(str, 1, Len(prefix)) = prefix

\* SQLite's  str LIKE pattern  (no ESCAPE clause): % matches any run of
\* characters, _ matches any one character, any other character matches
\* itself up to ASCII case.
RECURSIVE Like(_, _)
Like(pattern, str) ==
    IF pattern = << >> THEN str = << >>
    ELSE IF Head(pattern) = "%"
         THEN \/ Like(Tail(pattern), str)
              \/ (str # << >> /\ Like(pattern, Tail(str)))
    ELSE IF str = << >> THEN FALSE
    ELSE IF Head(pattern) = "_" THEN Like(Tail(pattern), Tail(str))
    ELSE /\ Lower(Head(pattern)) = Lower(Head(str))
         /\ Like(Tail(pattern), Tail(str))

\* HistoryStore.list_files_in_folder, as the set of the rows it returns
\* (ORDER BY file_path only orders them).
ListFilesInFolder(reg, folder_prefix) ==
    LET prefix == RStripSlash(folder_prefix) \o <<"/">>
    IN {p \in DOMAIN reg : Like(prefix \o <<"%">>, p)}

\* snapshot_file of a file under one of FolderPaths
FSnapshot(p) ==
    LET r == SnapshotFile(file_registry, snapshots, p, ContentOne)
    IN /\ file_registry' = r.registry
       /\ snapshots' = r.snapshots
       /\ lastCall' = [op |-> "snapshot", path |-> p, content |-> ContentOne,
                        version |-> r.version, ok |-> ~r.raised,
                        follows |-> "other"]
       /\ UNCHANGED <<handler, threads, embed_checksums, listing, memories, lastAsk, lastChunk, indexVars>>

FList(folder_prefix) ==
    /\ listing' = ListFilesInFolder(file_registry, folder_prefix)
    /\ lastCall' = [op |-> "list", path |-> folder_prefix, content |-> None,
                     version |-> 0, ok |-> TRUE, follows |-> "other"]
    /\ UNCHANGED <<handler, threads, file_registry, snapshots, embed_checksums, memories,
                   lastAsk, lastChunk, indexVars>>

NextFolder ==
    \/ \E p \in FolderPaths : FSnapshot(p)
    \/ \E f \in FolderPrefixes : FList(f)

SpecFolder == Init /\ [][NextFolder]_vars

\* C9 (as claimed): list_files_in_folder(prefix) returns exactly the tracked
\* paths that begin with prefix followed by "/", compared case-sensitively
\* and character for character.
C9_ListIsExactPrefixMatch ==
    lastCall.op = "list" =>
        listing = {p \in DOMAIN file_registry :
                       StartsWith(p, lastCall.path \o <<"/">>)}

\* ------------------------------------------------------------------------
\* Vector Index adapter (core/vector_store.py)
\* ------------------------------------------------------------------------
RECURSIVE ReplaceSlashes(_)
ReplaceSlashes(str) ==
    IF str = << >> THEN << >>
    ELSE <<IF Head(str) \in {"/", "\\"} THEN "_" ELSE Head(str)>>
             \o ReplaceSlashes(Tail(str))

\* str.rstrip(chars) and str.strip(chars)
RECURSIVE RStripChars(_, _)
RStripChars(str, chars) ==
    IF str # << >> /\ str[Len(str)] \in chars
    THEN RStripChars(SubSeq(str, 1, Len(str) - 1), chars)
    ELSE str

RECURSIVE StripChars(_, _)
StripChars(str, chars) ==
    IF str # << >> /\ Head(str) \in chars THEN StripChars(Tail(str), chars)
    ELSE RStripChars(str, chars)

_collection_name(folder) ==
    IF folder \in {<<".">>, << >>, <<"/">>} THEN <<"r", "o", "o", "t">>
    ELSE LET name1 == StripChars(ReplaceSlashes(folder), {"_", "-", "."})
             name2 == IF Len(name1) < 3 THEN name1 \o <<"_", "c", "o", "l">>
                      ELSE name1
         IN IF Len(name2) > 63
            THEN RStripChars(SubSeq(name2, 1, 63), {"_", "-"})
            ELSE name2

\* The entries of file_path in the collection of folder.
FileEntries(index, file_path, folder) ==
    {e \in index : e.collection = _collection_name(folder)
                   /\ e.file_path = file_path}

\* VectorStore.delete_file.  get_fails: collection.get or collection.delete
\* throws, which delete_file swallows.
\* A delete_file that finds no entry to delete.
DeleteFileKeepsAll(index, file_path, folder, get_fails) == index

delete_file(index, file_path, folder, get_fails) ==
    IF get_fails THEN index
    ELSE index \ FileEntries(index, file_path, folder)

\* The Vector Entries upsert_file builds for the chunks of a file.
NewEntries(file_path, folder, chunks) ==
    {[collection |-> _collection_name(folder),
      id |-> <<file_path, i - 1>>,
      file_path |-> file_path,
      folder |-> folder,
      chunk_index |-> i - 1,
      total_chunks |-> Len(chunks),
      start_line |-> chunks[i].start_line,
      end_line |-> chunks[i].end_line,
      document |-> chunks[i].text] : i \in 1..Len(chunks)}

\* VectorStore.upsert_file.  fail: the Vector Index call that fails ("delete":
\* swallowed by delete_file; "add": collection.add throws).  dup: what
\* collection.add does with an id the collection already holds, which
\* depends on the ChromaDB release: "raise" (DuplicateIDError) or "ignore"
\* (the entry already there is kept).
upsert_file(index, file_path, folder, chunks, fail, dup) ==
    LET deleted == delete_file(index, file_path, folder, fail = "delete")
        new == NewEntries(file_path, folder, chunks)
        held == {e.id : e \in {d \in deleted :
                                  d.collection = _collection_name(folder)}}
        clash == \E e \in new : e.id \in held
    IN IF chunks = << >>
       THEN [index |-> deleted, raised |-> FALSE, n |-> 0]
       ELSE IF fail = "add" \/ (clash /\ dup = "raise")
            THEN [index |-> deleted, raised |-> TRUE, n |-> 0]
            ELSE [index |-> deleted \cup {e \in new : e.id \notin held},
                  raised |-> FALSE, n |-> Len(chunks)]

\* ------------------------------------------------------------------------
\* Index Synchronizer: the per-file operations of the two drivers
\* ------------------------------------------------------------------------
Failures == {"none", "snapshot", "embed", "delete", "add"}
DupPolicies == {"raise", "ignore"}
Configs == [history_enabled : BOOLEAN, strategy : {"ast", "fixed"}]

\* HistoryStore.get_embed_checksum
get_embed_checksum(sums, file_path) ==
    IF file_path \in DOMAIN sums THEN sums[file_path] ELSE None

\* HistoryStore.set_embed_checksum
set_embed_checksum(sums, file_path, checksum) ==
    [p \in DOMAIN sums \cup {file_path} |->
        IF p = file_path THEN checksum ELSE sums[p]]

\* [text, start_line, end_line] of each chunk: chunk_texts and chunk_line_metas
LineChunks(chunks) ==
    [i \in 1..Len(chunks) |->
        [text |-> chunks[i].text, start_line |-> chunks[i].start_line,
         end_line |-> chunks[i].end_line]]

\* The chunks the full scan makes of a content.
ScanChunks(content, cfg, parser_ok) ==
    IF cfg.strategy = "ast"
    THEN LineChunks(smart_chunk(content, parser_ok, ChunkSize, Overlap))
    ELSE LineChunks(chunk_content(content, ChunkSize, Overlap))

\* The chunks the watcher makes of a content.
WatchChunks(content) == LineChunks(chunk_content(content, ChunkSize, Overlap))

\* The History snapshot step of both drivers.  fail = "snapshot": the
\* storage layer throws before it writes.  same_thread = FALSE: the call is
\* made on a thread other than the one that opened the connection, and
\* sqlite3 throws ProgrammingError (check_same_thread) before it writes.
SnapshotStep(cfg, rel_path, content, fail, same_thread) ==
    IF ~cfg.history_enabled
    THEN [registry |-> file_registry, snapshots |-> snapshots,
          raised |-> FALSE, version |-> 0]
    ELSE IF fail = "snapshot" \/ ~same_thread
         THEN [registry |-> file_registry, snapshots |-> snapshots,
               raised |-> TRUE, version |-> 0]
         ELSE SnapshotFile(file_registry, snapshots, rel_path, content)

Outcome(reg, snaps, sums, index, outcome, calls) ==
    [registry |-> reg, snapshots |-> snaps, checksums |-> sums,
     index |-> index, outcome |-> outcome, calls |-> calls]

HistoryCalls(cfg) == IF cfg.history_enabled THEN {"snapshot"} ELSE {}

\* A loop body that deletes the file's entries before it embeds.
ScanFileDeletesFirst(rel_path, cfg, fail, parser_ok, dup) ==
    LET folder == get_folder(rel_path)
        content == files[rel_path]
        checksum == _checksum(content)
        snap == SnapshotStep(cfg, rel_path, content, fail, TRUE)
        chunks == ScanChunks(content, cfg, parser_ok)
        up == upsert_file(chroma, rel_path, folder, chunks, fail, dup)
        hist == HistoryCalls(cfg)
    IN IF rel_path \notin DOMAIN files
       THEN Outcome(file_registry, snapshots, embed_checksums, chroma,
                    "error", {})
       ELSE IF snap.raised
       THEN Outcome(snap.registry, snap.snapshots, embed_checksums, chroma,
                    "error", hist)
       ELSE IF chunks = << >>
       THEN Outcome(snap.registry, snap.snapshots, embed_checksums, chroma,
                    "empty", hist)
       ELSE IF fail = "embed"
       THEN Outcome(snap.registry, snap.snapshots, embed_checksums,
                    delete_file(chroma, rel_path, folder, FALSE),
                    "error", hist \cup {"embed"})
       ELSE IF up.raised
       THEN Outcome(snap.registry, snap.snapshots, embed_checksums, up.index,
                    "error", hist \cup {"embed", "upsert"})
       ELSE Outcome(snap.registry, snap.snapshots,
                    set_embed_checksum(embed_checksums, rel_path, checksum),
                    up.index, "processed",
                    hist \cup {"embed", "upsert", "set_embed_checksum"})

\* scan_project's loop body after the unchanged-file check.
ScanFileBody(rel_path, cfg, fail, parser_ok, dup) ==
    LET folder == get_folder(rel_path)
        content == files[rel_path]
        checksum == _checksum(content)
        snap == SnapshotStep(cfg, rel_path, content, fail, TRUE)
        chunks == ScanChunks(content, cfg, parser_ok)
        up == upsert_file(chroma, rel_path, folder, chunks, fail, dup)
        hist == HistoryCalls(cfg)
    IN IF rel_path \notin DOMAIN files
       THEN Outcome(file_registry, snapshots, embed_checksums, chroma,
                    "error", {})
       ELSE IF snap.raised
       THEN Outcome(snap.registry, snap.snapshots, embed_checksums, chroma,
                    "error", hist)
       ELSE IF chunks = << >>
       THEN Outcome(snap.registry, snap.snapshots, embed_checksums, chroma,
                    "empty", hist)
       ELSE IF fail = "embed"
       THEN Outcome(snap.registry, snap.snapshots, embed_checksums, chroma,
                    "error", hist \cup {"embed"})
       ELSE IF up.raised
       THEN Outcome(snap.registry, snap.snapshots, embed_checksums, up.index,
                    "error", hist \cup {"embed", "upsert"})
       ELSE Outcome(snap.registry, snap.snapshots,
                    set_embed_checksum(embed_checksums, rel_path, checksum),
                    up.index, "processed",
                    hist \cup {"embed", "upsert", "set_embed_checksum"})

ScanFileNoSkip(rel_path, cfg, fail, parser_ok, dup) ==
    ScanFileBody(rel_path, cfg, fail, parser_ok, dup)

\* The body of scan_project's loop for one file.
ScanFile(rel_path, cfg, fail, parser_ok, dup) ==
    IF /\ rel_path \in DOMAIN files
       /\ get_embed_checksum(embed_checksums, rel_path)
              = _checksum(files[rel_path])
    THEN Outcome(file_registry, snapshots, embed_checksums, chroma,
                 "skipped", {})
    ELSE ScanFileBody(rel_path, cfg, fail, parser_ok, dup)

\* EmbexEventHandler._process_file
_process_file(rel_path, cfg, fail, same_thread, dup) ==
    LET folder == get_folder(rel_path)
        content == files[rel_path]
        snap == SnapshotStep(cfg, rel_path, content, fail, same_thread)
        chunks == WatchChunks(content)
        up == upsert_file(chroma, rel_path, folder, chunks, fail, dup)
        hist == HistoryCalls(cfg)
    IN IF rel_path \notin DOMAIN files
       THEN Outcome(file_registry, snapshots, embed_checksums, chroma,
                    "error", {})
       ELSE IF snap.raised
       THEN Outcome(snap.registry, snap.snapshots, embed_checksums, chroma,
                    "error", hist)
       ELSE IF chunks = << >>
       THEN Outcome(snap.registry, snap.snapshots, embed_checksums, chroma,
                    "empty", hist)
       ELSE IF fail = "embed"
       THEN Outcome(snap.registry, snap.snapshots, embed_checksums, chroma,
                    "error", hist \cup {"embed"})
       ELSE IF up.raised
       THEN Outcome(snap.registry, snap.snapshots, embed_checksums, up.index,
                    "error", hist \cup {"embed", "upsert"})
       ELSE Outcome(snap.registry, snap.snapshots, embed_checksums, up.index,
                    "processed", hist \cup {"embed", "upsert"})

\* ------------------------------------------------------------------------
\* Spec: the project tree, full scans and watch sessions
\* ------------------------------------------------------------------------

\* The files of the project tree, and the paths events arrive for: the
\* project's files and an ineligible one.
ProjectPaths == {PathSB}
PathIgnored == <<"n">>
EventPaths == ProjectPaths \cup {PathIgnored}

\* The highest version a scan or a watch session takes a file to.
MaxIndexedVersion == 1

\* The user (or `embex restore`) creates or rewrites a file.
WriteFile(p, c) ==
    /\ (p \in DOMAIN files => files[p] # c)
    /\ files' = [q \in DOMAIN files \cup {p} |-> IF q = p THEN c ELSE files[q]]
    /\ lastOp' = NoOp
    /\ UNCHANGED <<handler, threads, histVars, lastCall, listing, memories, lastAsk, lastChunk, chroma, session>>

\* The user deletes a file.
RemoveFile(p) ==
    /\ p \in DOMAIN files
    /\ files' = [q \in DOMAIN files \ {p} |-> files[q]]
    /\ lastOp' = NoOp
    /\ UNCHANGED <<handler, threads, histVars, lastCall, listing, memories, lastAsk, lastChunk, chroma, session>>

\* scan_project up to its loop: _collect_files and the counters.
ScanStart(cfg) ==
    /\ session.mode = "idle"
    /\ session' = [Idle EXCEPT !.mode = "scan", !.cfg = cfg,
                               !.files = SortPaths(DOMAIN files)]
    /\ lastOp' = NoOp
    /\ UNCHANGED <<handler, threads, histVars, lastCall, listing, memories, lastAsk, lastChunk, files, chroma>>

\* What made a full-scan visit end as it did: the failing call, "none"
\* when no failure changed what the visit did.
ScanCause(r, rel_path, cfg, fail, parser_ok) ==
    IF r = ScanFile(rel_path, cfg, "none", parser_ok, "raise") THEN "none"
    ELSE fail

\* A loop whose try does not catch: the first failing file ends the scan.
ScanVisitAborts(fail, parser_ok, dup) ==
    /\ session.mode = "scan"
    /\ session.pos < Len(session.files)
    /\ LET rel_path == session.files[session.pos + 1]
           r == ScanFile(rel_path, session.cfg, fail, parser_ok, dup)
       IN /\ GetLatestVersion(r.registry, rel_path) <= MaxIndexedVersion
          /\ file_registry' = r.registry
          /\ snapshots' = r.snapshots
          /\ embed_checksums' = r.checksums
          /\ chroma' = r.index
          /\ session' = IF r.outcome = "error" THEN Idle
                         ELSE [session EXCEPT
                 !.pos = @ + 1,
                 !.skipped = IF r.outcome = "skipped" THEN @ + 1 ELSE @,
                 !.chunks = IF r.outcome = "processed"
                            THEN @ + Cardinality(r.index \ chroma) ELSE @]
          /\ lastOp' = [kind |-> "scan", path |-> rel_path,
                        is_directory |-> FALSE,
                        outcome |-> r.outcome, calls |-> r.calls,
                        cause |-> ScanCause(r, rel_path, session.cfg, fail,
                                            parser_ok)]
    /\ UNCHANGED <<handler, threads, lastCall, listing, memories, lastAsk, lastChunk, files>>

\* One iteration of scan_project's loop.
ScanVisit(fail, parser_ok, dup) ==
    /\ session.mode = "scan"
    /\ session.pos < Len(session.files)
    /\ LET rel_path == session.files[session.pos + 1]
           r == ScanFile(rel_path, session.cfg, fail, parser_ok, dup)
       IN /\ GetLatestVersion(r.registry, rel_path) <= MaxIndexedVersion
          /\ file_registry' = r.registry
          /\ snapshots' = r.snapshots
          /\ embed_checksums' = r.checksums
          /\ chroma' = r.index
          /\ session' = [session EXCEPT
                 !.pos = @ + 1,
                 !.skipped = IF r.outcome = "skipped" THEN @ + 1 ELSE @,
                 !.errors = IF r.outcome = "error" THEN @ + 1 ELSE @,
                 !.chunks = IF r.outcome = "processed"
                            THEN @ + Cardinality(r.index \ chroma) ELSE @]
          /\ lastOp' = [kind |-> "scan", path |-> rel_path,
                        is_directory |-> FALSE,
                        outcome |-> r.outcome, calls |-> r.calls,
                        cause |-> ScanCause(r, rel_path, session.cfg, fail,
                                            parser_ok)]
    /\ UNCHANGED <<handler, threads, lastCall, listing, memories, lastAsk, lastChunk, files>>

\* scan_project returns its summary (also at once, when no file is eligible).
ScanFinish ==
    /\ session.mode = "scan"
    /\ session.pos = Len(session.files)
    /\ session' = Idle
    /\ lastOp' = NoOp
    /\ UNCHANGED <<handler, threads, histVars, lastCall, listing, memories, lastAsk, lastChunk, files, chroma>>

\* watch_command: the handler is built with an empty _last_event.
WatchStart(cfg) ==
    /\ session.mode = "idle"
    /\ session' = [Idle EXCEPT !.mode = "watch", !.cfg = cfg]
    /\ lastOp' = NoOp
    /\ UNCHANGED <<handler, threads, histVars, lastCall, listing, memories, lastAsk, lastChunk, files, chroma>>

\* A handler that looks at the path only.
DropsOnlyIneligible(path, is_directory) == should_ignore(path)

\* The early returns of _handle_event and on_deleted: a directory event or
\* an event for an ineligible path.
IsDropped(path, is_directory) == is_directory \/ should_ignore(path)

\* A handler that keeps no debounce state.
NeverDebounced(last_event, path) == FALSE

\* EmbexEventHandler._is_debounced: TRUE when the event is dropped.
_is_debounced(last_event, path) == last_event[path] < DebounceTicks

\* A handler that takes the time of every event it checks.
AlwaysRecorded(last_event, path, debounced) == [last_event EXCEPT ![path] = 0]

\* _last_event after _is_debounced: self._last_event[path] = now, when the
\* event is not debounced.
RecordEvent(last_event, path, debounced) ==
    IF debounced THEN last_event ELSE [last_event EXCEPT ![path] = 0]

\* What made the processing of an event end as it did: the failing call,
\* "thread" for the History Store called from a thread that did not open
\* it, "none" when nothing changed what the processing did.
EventCause(r, rel_path, cfg, fail) ==
    IF r = _process_file(rel_path, cfg, "none", TRUE, "raise") THEN "none"
    ELSE IF fail = "none" THEN "thread"
    ELSE fail

\* A _process_file without its try: a failure ends the observer thread.
HandleEventEscapes(kind, path, is_directory) ==
    /\ session.mode = "watch"
    /\ IF IsDropped(path, is_directory)
       THEN /\ lastOp' = [kind |-> kind, path |-> path,
                          is_directory |-> is_directory,
                          outcome |-> "dropped", calls |-> {},
                          cause |-> "none"]
            /\ UNCHANGED <<histVars, chroma, session>>
       ELSE IF _is_debounced(session.last_event, path)
       THEN /\ lastOp' = [kind |-> kind, path |-> path,
                          is_directory |-> is_directory,
                          outcome |-> "debounced", calls |-> {},
                          cause |-> "none"]
            /\ session' = [session EXCEPT
                   !.last_event = RecordEvent(@, path, TRUE)]
            /\ UNCHANGED <<histVars, chroma>>
       ELSE \E fail \in Failures :
            \E same_thread \in IF fail = "none" THEN BOOLEAN ELSE {TRUE} :
            \E dup \in IF fail = "delete" THEN DupPolicies ELSE {"raise"} :
            LET r == _process_file(path, session.cfg, fail, same_thread, dup)
            IN /\ GetLatestVersion(r.registry, path) <= MaxIndexedVersion
               /\ file_registry' = r.registry
               /\ snapshots' = r.snapshots
               /\ embed_checksums' = r.checksums
               /\ chroma' = r.index
               /\ session' = IF r.outcome = "error" THEN Idle
                             ELSE [session EXCEPT !.last_event =
                                      RecordEvent(@, path, FALSE)]
               /\ lastOp' = [kind |-> kind, path |-> path,
                             is_directory |-> is_directory,
                             outcome |-> r.outcome, calls |-> r.calls,
                             cause |-> EventCause(r, path, session.cfg, fail)]
    /\ UNCHANGED <<handler, threads, lastCall, listing, memories, lastAsk, lastChunk, files>>

\* EmbexEventHandler.on_created / on_modified (_handle_event).
HandleEvent(kind, path, is_directory) ==
    /\ session.mode = "watch"
    /\ IF IsDropped(path, is_directory)
       THEN /\ lastOp' = [kind |-> kind, path |-> path,
                          is_directory |-> is_directory,
                          outcome |-> "dropped", calls |-> {},
                          cause |-> "none"]
            /\ UNCHANGED <<histVars, chroma, session>>
       ELSE IF _is_debounced(session.last_event, path)
       THEN /\ lastOp' = [kind |-> kind, path |-> path,
                          is_directory |-> is_directory,
                          outcome |-> "debounced", calls |-> {},
                          cause |-> "none"]
            /\ session' = [session EXCEPT
                   !.last_event = RecordEvent(@, path, TRUE)]
            /\ UNCHANGED <<histVars, chroma>>
       ELSE \E fail \in Failures :
            \E same_thread \in IF fail = "none" THEN BOOLEAN ELSE {TRUE} :
            \E dup \in IF fail = "delete" THEN DupPolicies ELSE {"raise"} :
            LET r == _process_file(path, session.cfg, fail, same_thread, dup)
            IN /\ GetLatestVersion(r.registry, path) <= MaxIndexedVersion
               /\ file_registry' = r.registry
               /\ snapshots' = r.snapshots
               /\ embed_checksums' = r.checksums
               /\ chroma' = r.index
               /\ session' = [session EXCEPT
                      !.last_event = RecordEvent(@, path, FALSE)]
               /\ lastOp' = [kind |-> kind, path |-> path,
                             is_directory |-> is_directory,
                             outcome |-> r.outcome, calls |-> r.calls,
                             cause |-> EventCause(r, path, session.cfg, fail)]
    /\ UNCHANGED <<handler, threads, lastCall, listing, memories, lastAsk, lastChunk, files>>

\* EmbexEventHandler.on_deleted.  get_fails: the Vector Index throws inside
\* delete_file, which swallows it (outcome "swallowed"; on_deleted itself
\* sees no difference and reports the removal).
OnDeleted(path, is_directory, get_fails) ==
    /\ session.mode = "watch"
    /\ IF IsDropped(path, is_directory)
       THEN /\ lastOp' = [kind |-> "deleted", path |-> path,
                          is_directory |-> is_directory,
                          outcome |-> "dropped", calls |-> {},
                          cause |-> "none"]
            /\ UNCHANGED chroma
       ELSE /\ chroma' = delete_file(chroma, path, get_folder(path), get_fails)
            /\ lastOp' = [kind |-> "deleted", path |-> path,
                          is_directory |-> is_directory,
                          outcome |-> IF get_fails THEN "swallowed"
                                      ELSE "removed",
                          calls |-> {"delete"},
                          cause |-> IF get_fails THEN "delete" ELSE "none"]
    /\ UNCHANGED <<handler, threads, histVars, lastCall, listing, memories, lastAsk, lastChunk, files, session>>

\* The clock ticks.
Tick ==
    /\ session.mode = "watch"
    /\ \E p \in Paths : session.last_event[p] < DebounceTicks
    /\ session' = [session EXCEPT !.last_event =
           [p \in Paths |-> Min(session.last_event[p] + 1, DebounceTicks)]]
    /\ lastOp' = NoOp
    /\ UNCHANGED <<handler, threads, histVars, lastCall, listing, memories, lastAsk, lastChunk, files, chroma>>

\* Ctrl+C: the observer stops and the handler is dropped.
WatchStop ==
    /\ session.mode = "watch"
    /\ session' = Idle
    /\ lastOp' = NoOp
    /\ UNCHANGED <<handler, threads, histVars, lastCall, listing, memories, lastAsk, lastChunk, files, chroma>>

Next ==
    \/ \E p \in ProjectPaths, c \in Contents : WriteFile(p, c)
    \/ \E p \in ProjectPaths : RemoveFile(p)
    \/ \E cfg \in Configs : ScanStart(cfg)
    \/ \E fail \in Failures, parser_ok \in BOOLEAN :
       \E dup \in IF fail = "delete" THEN DupPolicies ELSE {"raise"} :
           ScanVisit(fail, parser_ok, dup)
    \/ ScanFinish
    \/ \E cfg \in Configs : WatchStart(cfg)
    \/ \E kind \in {"created", "modified"}, path \in EventPaths,
          is_directory \in BOOLEAN :
           HandleEvent(kind, path, is_directory)
    \/ \E path \in EventPaths, is_directory \in BOOLEAN, get_fails \in BOOLEAN :
           OnDeleted(path, is_directory, get_fails)
    \/ Tick
    \/ WatchStop

Spec == Init /\ [][Next]_vars

\* ------------------------------------------------------------------------
\* SpecScan: full scans of a project tree of several files
\* ------------------------------------------------------------------------
\* The contents the files of the tree take between scans.
TreeContents(p) ==
    IF p = PathA THEN {ContentOne} ELSE {ContentOne, ContentThree}

NextScan ==
    \/ \E p \in Paths : \E c \in TreeContents(p) : WriteFile(p, c)
    \/ \E p \in Paths : RemoveFile(p)
    \/ \E cfg \in Configs : ScanStart(cfg)
    \/ \E fail \in Failures, parser_ok \in BOOLEAN :
       \E dup \in IF fail = "delete" THEN DupPolicies ELSE {"raise"} :
           ScanVisit(fail, parser_ok, dup)
    \/ ScanFinish

SpecScan == Init /\ [][NextScan]_vars

\* ------------------------------------------------------------------------
\* VectorStore.query and the Retrieval-Correction Pipeline (core/rag.py)
\* ------------------------------------------------------------------------

\* Scores and thresholds are in hundredths: 30 is 0.30.
_RELEVANCE_THRESHOLD == 30

\* relevance_threshold = None
NoThreshold == 0 - 1

\* The L2 distances an entry can have to the query embedding.
Dists == {0, 1, 3}

\* score = 1.0 / (1.0 + dist), in hundredths (exact for the Dists)
Score(dist) == 100 \div (1 + dist)

\* The largest top_k asked for.
MaxTopK == 3

\* seq[:n]
Take(seq, n) == SubSeq(seq, 1, Min(n, Len(seq)))

\* client.list_collections(), less the collections that hold nothing (query
\* passes over them: count == 0).
Collections(index) == {e.collection : e \in index}

ColEntries(index, collection) == {e \in index : e.collection = collection}

\* col.query(n_results = n): any n entries of the collection that no entry
\* left out is nearer than.
Nearest(col, dist, n) ==
    {T \in SUBSET col :
        /\ Cardinality(T) = n
        /\ \A t \in T, u \in col \ T : dist[t] <= dist[u]}

\* The dict query builds of an entry.
Hit(e, d) ==
    [file_path |-> e.file_path, chunk_index |-> e.chunk_index,
     score |-> Score(d), preview |-> Take(e.document, 200),
     folder |-> e.folder]

\* The collections query searches.
Searched(index, folder) ==
    IF folder # << >> THEN {_collection_name(folder)} ELSE Collections(index)

\* The collections the loop of query appends hits of: those that hold an
\* entry and whose count and query calls do not throw (n_results < 1
\* throws; failing: the collections where the Vector Index throws).  What
\* throws is passed over.
Answering(index, folder, top_k, failing) ==
    IF top_k < 1 THEN {}
    ELSE (Searched(index, folder) \cap Collections(index)) \ failing

\* results.sort(key=score, reverse=True); results[:top_k]: the sequences of
\* length min(top_k, number of hits) in descending score that leave out no
\* hit of a higher score than one they hold.  The order of equal scores is
\* the order of arrival, which the Vector Index decides.
SortedTop(hits, top_k) ==
    LET n == Min(Max(top_k, 0), Cardinality(hits))
    IN {r \in [1..n -> hits] :
           /\ \A i, j \in 1..n : i < j =>
                  (r[i] # r[j] /\ r[i].score >= r[j].score)
           /\ \A h \in hits \ {r[i] : i \in 1..n} :
                  \A i \in 1..n : r[i].score >= h.score}

\* VectorStore.query: the result lists it can return.
query(index, dist, folder, top_k, failing) ==
    LET cols == Answering(index, folder, top_k, failing)
        pool == {e \in index : e.collection \in cols}
        picks == {M \in SUBSET pool :
                     \A c \in cols :
                         M \cap ColEntries(index, c)
                            \in Nearest(ColEntries(index, c), dist,
                                        Min(top_k, Cardinality(ColEntries(index, c))))}
    IN UNION {SortedTop({Hit(e, dist[e]) : e \in M}, top_k) : M \in picks}

\* How much of a preview goes into the context and the sources (chars).
_MAX_CHUNK_CHARS == 1200

\* The entry of sources ask builds of a retrieved hit.
Source(r) ==
    [file_path |-> r.file_path, chunk_index |-> r.chunk_index,
     score |-> r.score, preview |-> Take(r.preview, _MAX_CHUNK_CHARS),
     folder |-> r.folder]

\* relevant = [r for r in results if r["score"] > threshold]
RelevantStrict(results, threshold) ==
    SelectSeq(results, LAMBDA r : r.score > threshold)

\* relevant = [r for r in results if r["score"] >= threshold]
Relevant(results, threshold) ==
    SelectSeq(results, LAMBDA r : r.score >= threshold)

\* A pipeline without the fallback.
ContextNoFallback(relevant, results) == relevant

\* context_chunks = relevant if relevant else results
ContextChunks(relevant, results) ==
    IF relevant # << >> THEN relevant ELSE results

\* Failures of the providers ask calls.
AskFailures == {"none", "embed", "generate"}

\* ask, given what VectorStore.query returned.  key_present: the environment
\* variable config.llm.api_key_env is set.  fail: the provider call that
\* throws.  failed: the collections query passed over because they threw.
ask(top_k, folder, relevance_threshold, results, failed, key_present, fail) ==
    LET threshold == IF relevance_threshold # NoThreshold
                     THEN relevance_threshold ELSE _RELEVANCE_THRESHOLD
        relevant == Relevant(results, threshold)
        context_chunks == ContextChunks(relevant, results)
        call == [NoAsk EXCEPT !.top_k = top_k, !.folder = folder,
                               !.threshold = threshold]
    IN IF fail = "embed"
       THEN [call EXCEPT !.raised = "ProviderError",
                         !.calls = <<"embed_query">>]
       ELSE IF ~key_present
       THEN [call EXCEPT !.raised = "EnvironmentError",
                         !.calls = <<"embed_query", "query">>]
       ELSE IF fail = "generate"
       THEN [call EXCEPT !.raised = "ProviderError",
                         !.calls = <<"embed_query", "query", "generate">>]
       ELSE [call EXCEPT
                !.results = results,
                !.sources = [i \in 1..Len(context_chunks) |->
                                Source(context_chunks[i])],
                !.relevant_count = Len(relevant),
                !.total_retrieved = Len(results),
                !.calls = <<"embed_query", "query", "generate">>,
                !.failed = failed]

\* ------------------------------------------------------------------------
\* SpecAsk: questions asked of an index that files are upserted into
\* ------------------------------------------------------------------------
AskFolders == {None, <<"s">>, <<".">>, <<"z">>}
Thresholds == {NoThreshold, Score(1)}

\* VectorStore.upsert_file of the chunks of a content (no failure).
Upsert(p, c) ==
    /\ chroma' = upsert_file(chroma, p, get_folder(p), WatchChunks(c),
                             "none", "raise").index
    /\ chroma' # chroma
    /\ lastAsk' = NoAsk
    /\ UNCHANGED <<handler, threads, histVars, lastCall, listing, memories, lastChunk, files, session,
                   lastOp>>

\* ask(question, top_k, folder, relevance_threshold): the Vector Index
\* decides the distances and which of its collections throw.  lastAsk holds
\* the call until the index changes next.
Ask(top_k, folder, relevance_threshold, key_present, fail) ==
    /\ lastAsk = NoAsk
    /\ \E dist \in [chroma -> Dists] :
       \E failing \in SUBSET Collections(chroma) :
       \E results \in query(chroma, dist, folder, top_k, failing) :
           lastAsk' = ask(top_k, folder, relevance_threshold, results,
                          failing \cap Searched(chroma, folder),
                          key_present, fail)
    /\ UNCHANGED <<handler, threads, histVars, lastCall, listing, memories, lastChunk, files, chroma,
                   session, lastOp>>

NextAsk ==
    \/ \E p \in Paths, c \in {ContentOne, ContentThree} : Upsert(p, c)
    \/ \E top_k \in 0..MaxTopK, folder \in AskFolders,
          relevance_threshold \in Thresholds, key_present \in BOOLEAN,
          fail \in AskFailures :
           Ask(top_k, folder, relevance_threshold, key_present, fail)

SpecAsk == Init /\ [][NextAsk]_vars

\* ------------------------------------------------------------------------
\* SpecMemory: agent memories and code search on one ChromaDB directory
\* (core/memory_store.py)
\* ------------------------------------------------------------------------

\* MemoryStore._COLLECTION_NAME
AgentMemory == <<"a", "g", "e", "n", "t", "_", "m", "e", "m", "o", "r", "y">>

\* A folder of the project whose collection has that name.
AgentFolder == <<"a", "g", "e", "n", "t", "/", "m", "e", "m", "o", "r", "y">>

\* The texts agents remember, and how many memories are stored at most.
MemoryTexts == {<<"r">>}
MaxMemories == 1

\* str(uuid.uuid4()): the k-th id drawn, unlike every id drawn before.
Uuid(k) == [i \in 1..k |-> "u"]

\* The entry remember adds to the collection agent_memory.  Its metadata
\* has no file_path, chunk_index or folder: the fields hold what
\* VectorStore.query reads for them, meta.get's defaults.
MemoryEntry(memory_id, content) ==
    [collection |-> AgentMemory,
     id |-> <<memory_id, 0>>,
     file_path |-> << >>,
     folder |-> << >>,
     chunk_index |-> 0,
     total_chunks |-> 0,
     start_line |-> 0,
     end_line |-> 0,
     document |-> content]

\* MemoryStore.remember.  fail: "embed" (embed_texts throws, before any
\* write) or "add" (collection.add throws, after the row is committed).
Remember(content, fail) ==
    /\ Cardinality(memories) < MaxMemories
    /\ fail # "embed"
    /\ LET memory_id == Uuid(Cardinality(memories) + 1)
       IN /\ memories' = memories \cup {[id |-> memory_id, content |-> content]}
          /\ chroma' = IF fail = "add" THEN chroma
                        ELSE chroma \cup {MemoryEntry(memory_id, content)}
    /\ lastAsk' = NoAsk
    /\ UNCHANGED <<handler, threads, histVars, lastCall, listing, lastChunk, files, session,
                   lastOp>>

\* VectorStore.query(query_embedding, top_k, folder), as `embex query` and
\* ask call it: lastAsk holds the call and the hits it returned.
Query(top_k, folder) ==
    /\ lastAsk = NoAsk
    /\ \E dist \in [chroma -> Dists] :
       \E failing \in SUBSET Collections(chroma) :
       \E results \in query(chroma, dist, folder, top_k, failing) :
           lastAsk' = [NoAsk EXCEPT !.top_k = top_k, !.folder = folder,
                                    !.results = results,
                                    !.total_retrieved = Len(results),
                                    !.calls = <<"query">>,
                                    !.failed = failing
                                               \cap Searched(chroma, folder)]
    /\ UNCHANGED <<handler, threads, histVars, lastCall, listing, lastChunk, memories, files,
                   chroma, session, lastOp>>

MemoryFolders == {None, <<"s">>, AgentFolder}

NextMemory ==
    \/ \E p \in Paths : Upsert(p, ContentOne)
    \/ \E content \in MemoryTexts, fail \in {"none", "embed", "add"} :
           Remember(content, fail)
    \/ \E top_k \in 1..MaxTopK, folder \in MemoryFolders : Query(top_k, folder)

SpecMemory == Init /\ [][NextMemory]_vars

\* ------------------------------------------------------------------------
\* SpecStorage: the History Store when a statement can fail
\* ------------------------------------------------------------------------

\* The statements of snapshot_file that write, and "none".
StorageFailures == {"none", "registry", "snapshots"}

\* HistoryStore.snapshot_file when the statement named by fail raises a
\* storage error (sqlite3.Error).  snapshot_file has no except and no
\* rollback: the statement that raised is undone, the statements before it
\* stay in the connection's open transaction, which the next commit of the
\* connection makes durable.
SnapshotFileStorage(reg, snaps, file_path, content, fail) ==
    LET r == SnapshotFile(reg, snaps, file_path, content)
        unchanged == ~r.raised /\ r.registry = reg /\ r.snapshots = snaps
    IN IF fail = "none" \/ unchanged THEN r
       ELSE IF fail = "registry"
       THEN [registry |-> reg, snapshots |-> snaps, raised |-> TRUE,
             version |-> 0]
       ELSE [registry |-> r.registry, snapshots |-> snaps, raised |-> TRUE,
             version |-> 0]

\* A snapshot_file call in which a write raises.
HSnapshotFails(p, c, fail) ==
    LET r == SnapshotFileStorage(file_registry, snapshots, p, c, fail)
    IN /\ fail # "none"
       /\ r.raised
       /\ GetLatestVersion(r.registry, p) <= MaxVersion
       /\ file_registry' = r.registry
       /\ snapshots' = r.snapshots
       /\ lastCall' = [op |-> "snapshot", path |-> p, content |-> c,
                        version |-> r.version, ok |-> FALSE,
                        follows |-> Follows(p, c)]
       /\ UNCHANGED <<handler, threads, embed_checksums, listing, memories, lastAsk, lastChunk,
                      indexVars>>

\* The files whose history SpecStorage follows.
StoragePaths == {PathA}

NextStorage ==
    \/ \E p \in StoragePaths, c \in Contents : HSnapshot(p, c)
    \/ \E p \in StoragePaths, v \in 1..(MaxVersion + 1) : HRestore(p, v)
    \/ \E p \in StoragePaths, c \in Contents, fail \in StorageFailures :
           HSnapshotFails(p, c, fail)

SpecStorage == Init /\ [][NextStorage]_vars

\* ------------------------------------------------------------------------
\* SpecPartition: files of folders whose collection names meet
\* ------------------------------------------------------------------------

\* Two folder names of 64 characters that differ in the last one.
LongFolderA == [i \in 1..64 |-> IF i = 64 THEN "a" ELSE "l"]
LongFolderB == [i \in 1..64 |-> IF i = 64 THEN "b" ELSE "l"]

\* The folders of the project: the project root, a folder named root,
\* a/b and a_b, and the two long ones.
PartitionFolders ==
    {<<".">>, <<"r", "o", "o", "t">>, <<"a", "/", "b">>, <<"a", "_", "b">>,
     LongFolderA, LongFolderB}

\* One file f in each of them.
PartitionPath(folder) ==
    IF folder = <<".">> THEN <<"f">> ELSE folder \o <<"/", "f">>

PartitionPaths == {PartitionPath(folder) : folder \in PartitionFolders}

NextPartition ==
    \/ \E p \in PartitionPaths : Upsert(p, ContentOne)
    \/ \E top_k \in 1..MaxTopK, folder \in PartitionFolders :
           Query(top_k, folder)

SpecPartition == Init /\ [][NextPartition]_vars

\* ------------------------------------------------------------------------
\* SpecDebounce: two threads in EmbexEventHandler._is_debounced
\* ------------------------------------------------------------------------

\* The largest value of the clock.
MaxClock == 5

\* The handler before the two events: an event of the path was accepted at
\* prior, or none (0).
InitDebounce ==
    /\ file_registry = << >>
    /\ snapshots = {}
    /\ embed_checksums = << >>
    /\ lastCall = NoCall
    /\ listing = {}
    /\ files = << >>
    /\ chroma = {}
    /\ session = Idle
    /\ lastOp = NoOp
    /\ lastAsk = NoAsk
    /\ lastChunk = NoChunk
    /\ memories = {}
    /\ threads = NoThreads
    /\ \E prior \in 0..DebounceTicks :
           handler = [IdleHandler EXCEPT !.prior = prior,
                                         !._last_event = [p \in Paths |-> prior]]

\* An acquire that does not wait.
AlwaysAcquire(lock) == TRUE

\* threading.Lock.acquire returns when the lock is free.
CanAcquire(lock) == lock = "free"

\* An event of path is delivered to thread t, which calls _is_debounced.
Deliver(t, path) ==
    /\ threads[t].pc = "idle"
    /\ threads' = [threads EXCEPT ![t].pc = "line55", ![t].path = path]
    /\ UNCHANGED <<handler, histVars, lastCall, listing, memories, lastAsk,
                   lastChunk, indexVars>>

\* now = time.time()
ReadNow(t) ==
    /\ threads[t].pc = "line55"
    /\ threads' = [threads EXCEPT ![t].pc = "line56", ![t].now = handler.clock]
    /\ UNCHANGED <<handler, histVars, lastCall, listing, memories, lastAsk,
                   lastChunk, indexVars>>

\* with self._lock:
Acquire(t) ==
    /\ threads[t].pc = "line56"
    /\ CanAcquire(handler._lock)
    /\ handler' = [handler EXCEPT !._lock = t]
    /\ threads' = [threads EXCEPT ![t].pc = "line57"]
    /\ UNCHANGED <<histVars, lastCall, listing, memories, lastAsk,
                   lastChunk, indexVars>>

\* last = self._last_event.get(path, 0)
GetLast(t) ==
    /\ threads[t].pc = "line57"
    /\ threads' = [threads EXCEPT ![t].pc = "line58",
                                  ![t].last = handler._last_event[threads[t].path]]
    /\ UNCHANGED <<handler, histVars, lastCall, listing, memories, lastAsk,
                   lastChunk, indexVars>>

\* if now - last < _DEBOUNCE_SECONDS: return True (the with block releases
\* the lock)
Compare(t) ==
    /\ threads[t].pc = "line58"
    /\ IF threads[t].now - threads[t].last < DebounceTicks
       THEN /\ threads' = [threads EXCEPT ![t].pc = "done",
                                          ![t].ret = "dropped"]
            /\ handler' = [handler EXCEPT !._lock = "free"]
       ELSE /\ threads' = [threads EXCEPT ![t].pc = "line60"]
            /\ UNCHANGED handler
    /\ UNCHANGED <<histVars, lastCall, listing, memories, lastAsk,
                   lastChunk, indexVars>>

\* self._last_event[path] = now; return False (and the lock is released)
Record(t) ==
    /\ threads[t].pc = "line60"
    /\ handler' = [handler EXCEPT !._last_event[threads[t].path] = threads[t].now,
                                  !._lock = "free"]
    /\ threads' = [threads EXCEPT ![t].pc = "done", ![t].ret = "accepted"]
    /\ UNCHANGED <<histVars, lastCall, listing, memories, lastAsk,
                   lastChunk, indexVars>>

\* Time passes while the threads run.
ClockTick ==
    /\ handler.clock < MaxClock
    /\ handler' = [handler EXCEPT !.clock = @ + 1]
    /\ UNCHANGED <<threads, histVars, lastCall, listing, memories, lastAsk,
                   lastChunk, indexVars>>

NextDebounce ==
    \/ \E t \in Threads, path \in Paths : Deliver(t, path)
    \/ \E t \in Threads : ReadNow(t)
    \/ \E t \in Threads : Acquire(t)
    \/ \E t \in Threads : GetLast(t)
    \/ \E t \in Threads : Compare(t)
    \/ \E t \in Threads : Record(t)
    \/ ClockTick

SpecDebounce == InitDebounce /\ [][NextDebounce]_vars

\* ------------------------------------------------------------------------
\* SpecUpsert: two operations in VectorStore.upsert_file for one file (a
\* scan visit and a watcher event, or two processes on one index)
\* ------------------------------------------------------------------------

\* The ids collection.get(where={"file_path": file_path}) returns.
ExistingIds(index, file_path, folder) ==
    {e.id : e \in FileEntries(index, file_path, folder)}

\* upsert_file(file_path, ...) is called with the chunks of a content.
UCall(t, file_path, content) ==
    /\ threads[t].pc \in {"idle", "done"}
    /\ threads' = [threads EXCEPT ![t] = [NoFrame EXCEPT
                                             !.pc = "get",
                                             !.path = file_path,
                                             !.chunks = WatchChunks(content)]]
    /\ UNCHANGED <<handler, histVars, lastCall, listing, memories, lastAsk,
                   lastChunk, indexVars>>

\* delete_file: existing = collection.get(where={"file_path": file_path})
UGet(t) ==
    /\ threads[t].pc = "get"
    /\ threads' = [threads EXCEPT
           ![t].pc = "delete",
           ![t].ids = ExistingIds(chroma, threads[t].path,
                                  get_folder(threads[t].path))]
    /\ UNCHANGED <<handler, histVars, lastCall, listing, memories, lastAsk,
                   lastChunk, indexVars>>

\* delete_file: if existing["ids"]: collection.delete(ids=existing["ids"])
UDelete(t) ==
    /\ threads[t].pc = "delete"
    /\ chroma' = {e \in chroma :
                     ~(/\ e.collection
                            = _collection_name(get_folder(threads[t].path))
                       /\ e.id \in threads[t].ids)}
    /\ threads' = [threads EXCEPT ![t].pc = "add"]
    /\ UNCHANGED <<handler, histVars, lastCall, listing, memories, lastAsk,
                   lastChunk, files, session, lastOp>>

\* collection.add(ids, documents, embeddings, metadatas) and the return.
\* dup: what add does with an id the collection holds.
UAdd(t, dup) ==
    LET folder == get_folder(threads[t].path)
        new == NewEntries(threads[t].path, folder, threads[t].chunks)
        held == {e.id : e \in {d \in chroma :
                                  d.collection = _collection_name(folder)}}
        clash == \E e \in new : e.id \in held
    IN /\ threads[t].pc = "add"
       /\ IF clash /\ dup = "raise"
          THEN /\ threads' = [threads EXCEPT ![t].pc = "done",
                                             ![t].ret = "raised"]
               /\ UNCHANGED chroma
          ELSE /\ threads' = [threads EXCEPT ![t].pc = "done",
                                             ![t].ret = "returned"]
               /\ chroma' = chroma \cup {e \in new : e.id \notin held}
       /\ UNCHANGED <<handler, histVars, lastCall, listing, memories, lastAsk,
                      lastChunk, files, session, lastOp>>

NextUpsert ==
    \/ \E t \in Threads, c \in {ContentOne, ContentThree} :
           UCall(t, PathSB, c)
    \/ \E t \in Threads : UGet(t)
    \/ \E t \in Threads : UDelete(t)
    \/ \E t \in Threads, dup \in DupPolicies : UAdd(t, dup)

SpecUpsert == Init /\ [][NextUpsert]_vars

\* ------------------------------------------------------------------------
\* SpecWatch: a watch session whose events come from the writes to the tree
\* ------------------------------------------------------------------------

\* How many times the files are written during the session.
MaxWrites == 3

\* A file of the project is written with a content that is not blank: the
\* observer queues a modified (or created) event of the path.
Modify(p, c) ==
    /\ session.mode = "watch"
    /\ handler.writes < MaxWrites
    /\ p \in DOMAIN files => files[p] # c
    /\ files' = [q \in DOMAIN files \cup {p} |-> IF q = p THEN c ELSE files[q]]
    /\ handler' = [handler EXCEPT !.events = Append(@, p),
                                  !.writes = @ + 1]
    /\ lastOp' = NoOp
    /\ UNCHANGED <<threads, histVars, lastCall, listing, memories, lastAsk,
                   lastChunk, chroma, session>>

\* The observer thread hands the oldest queued event to _handle_event; no
\* call of _process_file fails.
Dispatch ==
    /\ session.mode = "watch"
    /\ handler.events # << >>
    /\ LET path == Head(handler.events)
           debounced == _is_debounced(session.last_event, path)
           r == _process_file(path, session.cfg, "none", TRUE, "raise")
       IN /\ handler' = [handler EXCEPT !.events = Tail(@)]
          /\ session' = [session EXCEPT
                 !.last_event = RecordEvent(@, path, debounced)]
          /\ chroma' = IF debounced THEN chroma ELSE r.index
          /\ file_registry' = IF debounced THEN file_registry ELSE r.registry
          /\ snapshots' = IF debounced THEN snapshots ELSE r.snapshots
          /\ embed_checksums' = IF debounced THEN embed_checksums
                                ELSE r.checksums
    /\ lastOp' = NoOp
    /\ UNCHANGED <<threads, lastCall, listing, memories, lastAsk, lastChunk,
                   files>>

NextWatch ==
    \/ \E cfg \in Configs : ~cfg.history_enabled /\ WatchStart(cfg)
    \/ \E p \in Paths, c \in {ContentOne, ContentThree} : Modify(p, c)
    \/ Dispatch
    \/ Tick

\* The observer thread dispatches every queued event, and time passes.
SpecWatch ==
    Init /\ [][NextWatch]_vars /\ WF_vars(Dispatch) /\ WF_vars(Tick)

\* ------------------------------------------------------------------------
\* SpecChunk: the two chunkers applied to a content
\* ------------------------------------------------------------------------

\* The longest content, in lines, and the largest chunk_size and overlap.
MaxLines == 3
MaxChunkSize == 3
MaxOverlap == 2

Tokens == {" ", "x", "d", "i", "c", "m", "n"}

\* A source file: an indented line or a nested definition has a definition
\* above it.
WellFormed(content) ==
    \A k \in 1..Len(content) :
        content[k] \in {"m", "i"} =>
            k > 1 /\ content[k - 1] \in {"c", "d", "m", "i"}

ChunkContents ==
    {c \in UNION {[1..n -> Tokens] : n \in 0..MaxLines} : WellFormed(c)}

InitChunk ==
    /\ file_registry = << >>
    /\ snapshots = {}
    /\ embed_checksums = << >>
    /\ lastCall = NoCall
    /\ listing = {}
    /\ files = << >>
    /\ chroma = {}
    /\ session = Idle
    /\ lastOp = NoOp
    /\ lastAsk = NoAsk
    /\ memories = {}
    /\ handler = IdleHandler
    /\ threads = NoThreads
    /\ \E content \in ChunkContents, chunk_size \in 1..MaxChunkSize,
          overlap \in 0..MaxOverlap :
           lastChunk = [NoChunk EXCEPT !.content = content,
                                       !.chunk_size = chunk_size,
                                       !.overlap = overlap]

\* chunk_content(content, chunk_size, overlap)
ChunkContent ==
    /\ lastChunk.applied = "none"
    /\ lastChunk' = [lastChunk EXCEPT
           !.applied = "chunk_content",
           !.raw = chunk_content(lastChunk.content, lastChunk.chunk_size,
                                 lastChunk.overlap)]
    /\ UNCHANGED <<handler, threads, histVars, lastCall, listing, memories, lastAsk, indexVars>>

\* smart_chunk(content, extension, config)
SmartChunk(parser_ok) ==
    /\ lastChunk.applied = "none"
    /\ lastChunk' = [lastChunk EXCEPT
           !.applied = "smart_chunk",
           !.parser_ok = parser_ok,
           !.smart = smart_chunk(lastChunk.content, parser_ok,
                                 lastChunk.chunk_size, lastChunk.overlap)]
    /\ UNCHANGED <<handler, threads, histVars, lastCall, listing, memories, lastAsk, indexVars>>

NextChunk ==
    \/ ChunkContent
    \/ \E parser_ok \in BOOLEAN : SmartChunk(parser_ok)

SpecChunk == InitChunk /\ [][NextChunk]_vars

\* ------------------------------------------------------------------------
\* SpecLoop: chunk_content, one iteration of its while loop at a time
\* ------------------------------------------------------------------------

\* chunk_content up to its loop: the early returns and the initial values.
LoopStart ==
    /\ lastChunk.applied = "none"
    /\ lastChunk' =
           IF lastChunk.content = << >> \/ IsBlankContent(lastChunk.content)
           THEN [lastChunk EXCEPT !.applied = "chunk_content"]
           ELSE [lastChunk EXCEPT !.applied = "loop", !.start = 0]
    /\ UNCHANGED <<handler, threads, histVars, lastCall, listing, memories, lastAsk, indexVars>>

\* One iteration of the while loop: the chunk of the window, the step, and
\* the trailing chunk with its break.  A run is cut off after more
\* iterations than a content has lines.
LoopBody ==
    /\ lastChunk.applied = "loop"
    /\ lastChunk.start < Len(lastChunk.content)
    /\ Len(lastChunk.raw) <= MaxLines
    /\ LET lines == lastChunk.content
           total == Len(lines)
           start == lastChunk.start
           idx == Len(lastChunk.raw)
           end == Min(start + lastChunk.chunk_size, total)
           chunks1 == Append(lastChunk.raw, RawChunk(lines, idx, start, end))
           start1 == start + Step(lastChunk.chunk_size, lastChunk.overlap)
       IN lastChunk' =
              IF start1 < total /\ (total - start1) <= lastChunk.overlap
              THEN [lastChunk EXCEPT
                       !.raw = Append(chunks1,
                                      RawChunk(lines, idx + 1, start1, total)),
                       !.start = start1,
                       !.applied = "chunk_content"]
              ELSE [lastChunk EXCEPT !.raw = chunks1, !.start = start1]
    /\ UNCHANGED <<handler, threads, histVars, lastCall, listing, memories, lastAsk, indexVars>>

\* The loop condition is false: return chunks.
LoopEnd ==
    /\ lastChunk.applied = "loop"
    /\ ~(lastChunk.start < Len(lastChunk.content))
    /\ lastChunk' = [lastChunk EXCEPT !.applied = "chunk_content"]
    /\ UNCHANGED <<handler, threads, histVars, lastCall, listing, memories, lastAsk, indexVars>>

NextLoop == LoopStart \/ LoopBody \/ LoopEnd

\* The call runs on: a step it can take, it takes.
SpecLoop == InitChunk /\ [][NextLoop]_vars /\ WF_vars(NextLoop)

\* ------------------------------------------------------------------------
\* Claims about the History Store (checked under SpecHistory)
\* ------------------------------------------------------------------------

\* The step is the call snapshot(p, c): every action of SpecHistory writes
\* lastCall, so lastCall' names the call the step made.
IsSnapshotCall(p, c) ==
    /\ lastCall'.op = "snapshot" /\ lastCall'.path = p /\ lastCall'.content = c

\* p is tracked and the hash of c differs from the Snapshot at current_version.
DiffersFromCurrent(p, c) ==
    /\ p \in DOMAIN file_registry
    /\ \E s \in SnapshotRows(snapshots, p, file_registry[p].current_version) :
           s.checksum # _checksum(c)

\* The highest version of p that has a Snapshot (0 when there is none).
HighestVersion(p) ==
    LET vs == {s.version : s \in {t \in snapshots : t.file_path = p}}
    IN IF vs = {} THEN 0 ELSE CHOOSE v \in vs : \A w \in vs : w <= v

\* C3 (as claimed): for a tracked file, snapshot(path, content) with content
\* whose hash differs from the Snapshot at current_version always succeeds:
\* it returns current_version + 1, writes the Snapshot of that version and
\* advances current_version to it, also after restoreTo rewound
\* current_version below the file's highest version.
C3_SnapshotOfNewContentSucceeds ==
    [][\A p \in Paths, c \in Contents :
          (IsSnapshotCall(p, c) /\ DiffersFromCurrent(p, c)) =>
              LET v == file_registry[p].current_version + 1
              IN /\ lastCall'.ok
                 /\ lastCall'.version = v
                 /\ GetSnapshot(snapshots', p, v) = c
                 /\ file_registry'[p].current_version = v]_vars

\* C4: for every tracked file and existing version v, restoreTo(path, v)
\* followed by snapshot(path, getSnapshot(path, v)) returns v, leaves
\* current_version = v and creates no Snapshot.
C4_RestoreThenSnapshot ==
    [][\A p \in Paths, c \in Contents :
          (/\ lastCall.op = "restore" /\ lastCall.path = p /\ lastCall.ok
           /\ c = GetSnapshot(snapshots, p, lastCall.version)
           /\ IsSnapshotCall(p, c)) =>
              /\ lastCall'.ok
              /\ lastCall'.version = lastCall.version
              /\ file_registry'[p].current_version = lastCall.version
              /\ snapshots' = snapshots]_vars

\* C4 witness: a snapshot of the restored content was taken right after a
\* restoreTo that rewound the file below its highest version.
C4_Witness ==
    /\ lastCall.op = "snapshot" /\ lastCall.follows = "restore" /\ lastCall.ok
    /\ lastCall.version < HighestVersion(lastCall.path)
    /\ file_registry[lastCall.path].current_version = lastCall.version

\* C5 (as claimed): two snapshot(path, content) calls in a row with the same
\* content both return, return the same version, and the second changes
\* neither the Snapshot set nor the File Registry.
C5_SnapshotTwiceIsIdempotent ==
    [][\A p \in Paths, c \in Contents :
          (/\ lastCall.op = "snapshot" /\ lastCall.path = p
           /\ lastCall.content = c
           /\ IsSnapshotCall(p, c)) =>
              /\ lastCall.ok /\ lastCall'.ok
              /\ lastCall'.version = lastCall.version
              /\ snapshots' = snapshots
              /\ file_registry' = file_registry]_vars

\* C6: every snapshot call that returns, for an untracked file or with
\* content that differs from the Snapshot at current_version, increases that
\* file's current_version by exactly 1 (0 to 1 for an untracked file) and
\* changes no other file's current_version.
C6_SnapshotAdvancesByOne ==
    [][\A p \in Paths, c \in Contents :
          (/\ IsSnapshotCall(p, c) /\ lastCall'.ok
           /\ (p \notin DOMAIN file_registry \/ DiffersFromCurrent(p, c))) =>
              /\ GetLatestVersion(file_registry', p)
                     = GetLatestVersion(file_registry, p) + 1
              /\ lastCall'.version = GetLatestVersion(file_registry', p)
              /\ \A q \in Paths \ {p} :
                     GetLatestVersion(file_registry', q)
                         = GetLatestVersion(file_registry, q)]_vars

\* C6 witness: a snapshot call has just advanced a tracked file to version 2
\* or more while another file is tracked.
C6_Witness ==
    /\ lastCall.op = "snapshot" /\ lastCall.ok /\ lastCall.follows = "other"
    /\ lastCall.version >= 2
    /\ lastCall.version = HighestVersion(lastCall.path)
    /\ GetLatestVersion(file_registry, lastCall.path) = lastCall.version
    /\ \E q \in Paths \ {lastCall.path} : q \in DOMAIN file_registry

\* At most one Snapshot per (file_path, version).
UniqueSnapshots(snaps) ==
    \A s, t \in snaps :
        (s.file_path = t.file_path /\ s.version = t.version) => s = t

\* C7: the Snapshot archive is append-only: no snapshot or restoreTo call
\* deletes or alters a Snapshot, there is never more than one Snapshot per
\* (file_path, version), and restoreTo leaves the Snapshot set as it is.
C7_SnapshotsAppendOnly ==
    [][/\ snapshots \subseteq snapshots'
       /\ UniqueSnapshots(snapshots')
       /\ \A s \in snapshots :
              GetSnapshot(snapshots', s.file_path, s.version) = s.content
       /\ (lastCall'.op = "restore" => snapshots' = snapshots)]_vars

\* C7 witness: a snapshot call was refused a version that already holds
\* other content, and that version still holds its content.
C7_Witness ==
    /\ lastCall.op = "snapshot" /\ ~lastCall.ok
    /\ \E s \in snapshots :
           /\ s.file_path = lastCall.path
           /\ s.version = file_registry[lastCall.path].current_version
           /\ s.content # lastCall.content

\* C8: restoreTo(path, v) for a (path, v) with no Snapshot returns notFound
\* and leaves every File Registry Entry and Snapshot unchanged; getSnapshot
\* is absent for such a (path, v); getLatestVersion of an untracked path is 0.
AbsentResults(reg, snaps) ==
    /\ \A p \in Paths, v \in 0..(MaxVersion + 1) :
           (\A s \in snaps : ~(s.file_path = p /\ s.version = v))
               => GetSnapshot(snaps, p, v) = None
    /\ \A p \in Paths :
           (p \notin DOMAIN reg) => GetLatestVersion(reg, p) = 0

C8_UnknownIsAbsent ==
    [][/\ AbsentResults(file_registry, snapshots)
       /\ AbsentResults(file_registry', snapshots')
       /\ \A p \in Paths, v \in 1..(MaxVersion + 1) :
              (/\ lastCall'.op = "restore" /\ lastCall'.path = p
               /\ lastCall'.version = v
               /\ \A s \in snapshots : ~(s.file_path = p /\ s.version = v)) =>
                  /\ ~lastCall'.ok
                  /\ file_registry' = file_registry
                  /\ snapshots' = snapshots]_vars

\* C8 witness: restoreTo was called for a version a tracked file does not
\* have, while the other file is untracked.
C8_Witness ==
    /\ lastCall.op = "restore" /\ ~lastCall.ok
    /\ lastCall.path \in DOMAIN file_registry
    /\ lastCall.version > HighestVersion(lastCall.path)
    /\ \E q \in Paths : q \notin DOMAIN file_registry

\* ------------------------------------------------------------------------
\* Claims about the Index Synchronizer (checked under Spec)
\* ------------------------------------------------------------------------

\* Every chunking a driver can make of a content.
Chunkings(content) ==
    {ScanChunks(content, cfg, parser_ok) :
         cfg \in Configs, parser_ok \in BOOLEAN} \cup {WatchChunks(content)}

\* The Vector Entries of file_path are exactly those of chunks.
EntriesAre(file_path, chunks) ==
    FileEntries(chroma, file_path, get_folder(file_path))
        = NewEntries(file_path, get_folder(file_path), chunks)

\* C1 (as claimed): in every reachable state each file either has no
\* Embed-Checksum Record, or the recorded hash is the hash of a content whose
\* chunks are exactly the Vector Entries the index holds for the file.
C1_EmbedChecksumReflectsIndex ==
    \A f \in ProjectPaths :
        f \in DOMAIN embed_checksums =>
            \E c \in Contents :
                /\ embed_checksums[f] = _checksum(c)
                /\ \E chunks \in Chunkings(c) : EntriesAre(f, chunks)

\* C2 (as claimed): after a scan visit or a create/modify event that ended
\* without error, the Vector Entries of the file are exactly one entry per
\* chunk of the content the operation read, also when that content has
\* fewer chunks than before or no chunk at all.
C2_EntriesAreChunksOfContentRead ==
    (/\ lastOp.kind \in {"scan", "created", "modified"}
     /\ lastOp.outcome \in {"processed", "empty"}) =>
        \E chunks \in Chunkings(files[lastOp.path]) :
            EntriesAre(lastOp.path, chunks)

\* C10: a scan visit that finds the Embed-Checksum Record of the file equal
\* to the hash of its current content ends skipped, calls no collaborator,
\* leaves the History Store and the Vector Index as they were and adds one
\* to the skipped count; a visit ends skipped only in that case; a visit
\* that embedded the file leaves the record at the hash of the content it
\* read; and no step other than a scan visit changes the record.
C10_UnchangedFileIsSkipped ==
    [][/\ lastOp'.kind = "scan" =>
              LET f == lastOp'.path
                  unchanged ==
                      /\ f \in DOMAIN files
                      /\ get_embed_checksum(embed_checksums, f)
                             = _checksum(files[f])
              IN /\ unchanged =>
                        /\ lastOp'.outcome = "skipped"
                        /\ lastOp'.calls = {}
                        /\ UNCHANGED <<histVars, chroma>>
                        /\ session'.skipped = session.skipped + 1
                 /\ lastOp'.outcome = "skipped" => unchanged
                 /\ lastOp'.outcome = "processed" =>
                        get_embed_checksum(embed_checksums', f)
                            = _checksum(files[f])
       /\ lastOp'.kind # "scan" => UNCHANGED embed_checksums]_vars

\* A later scan has skipped a file that an earlier scan embedded.
C10_Witness ==
    /\ lastOp.kind = "scan"
    /\ lastOp.outcome = "skipped"
    /\ session.skipped = 1
    /\ lastOp.path \in DOMAIN embed_checksums
    /\ FileEntries(chroma, lastOp.path, get_folder(lastOp.path)) # {}

\* ------------------------------------------------------------------------
\* Claims about the full scan of several files (checked under SpecScan)
\* ------------------------------------------------------------------------

\* The step leaves everything the stores hold about the files other than p
\* as it was.
OtherFilesUntouched(p) ==
    \A q \in Paths \ {p} :
        /\ GetLatestVersion(file_registry', q)
               = GetLatestVersion(file_registry, q)
        /\ {r \in snapshots' : r.file_path = q}
               = {r \in snapshots : r.file_path = q}
        /\ get_embed_checksum(embed_checksums', q)
               = get_embed_checksum(embed_checksums, q)
        /\ {e \in chroma' : e.file_path = q} = {e \in chroma : e.file_path = q}

\* C11: a scan visit that fails adds one to the error count and nothing to
\* the other counts, leaves the scan running over the same sorted list with
\* the next file next, and leaves what the stores hold about every other
\* file as it was; every visit is of the next file of the sorted list; and
\* the scan returns only once every collected file has been visited.
C11_FailureDoesNotAbortScan ==
    [][/\ lastOp'.kind = "scan" =>
              /\ session'.mode = "scan"
              /\ session'.files = session.files
              /\ session.files = SortPaths({session.files[i] :
                                              i \in 1..Len(session.files)})
              /\ session'.pos = session.pos + 1
              /\ lastOp'.path = session.files[session'.pos]
              /\ OtherFilesUntouched(lastOp'.path)
       /\ (lastOp'.kind = "scan" /\ lastOp'.outcome = "error") =>
              /\ session'.errors = session.errors + 1
              /\ session'.skipped = session.skipped
              /\ session'.chunks = session.chunks
       /\ (session.mode = "scan" /\ session'.mode # "scan") =>
              session.pos = Len(session.files)]_vars

\* The second file of a scan was embedded after the first one failed.
C11_Witness ==
    /\ lastOp.kind = "scan"
    /\ lastOp.outcome = "processed"
    /\ session.pos = 2
    /\ session.errors = 1

\* C12 (as claimed): a scan visit whose insertion of the new Vector Entries
\* fails counts one error and leaves the Embed-Checksum Record as it was,
\* which is not the hash of the content read; and no scan visit skips a file
\* that the index holds no entry of (without watcher events, a file with an
\* Embed-Checksum Record has no entry only when an insertion failed after
\* the deletion and no index operation on the file has succeeded since).
C12_FailedInsertIsNotMasked ==
    [][lastOp'.kind = "scan" =>
           LET f == lastOp'.path
           IN /\ (lastOp'.outcome = "error" /\ "upsert" \in lastOp'.calls) =>
                     /\ session'.errors = session.errors + 1
                     /\ UNCHANGED embed_checksums
                     /\ get_embed_checksum(embed_checksums', f)
                            # _checksum(files[f])
              /\ lastOp'.outcome = "skipped" =>
                     FileEntries(chroma, f, get_folder(f)) # {}]_vars

\* ------------------------------------------------------------------------
\* Claims about scans and watch sessions of one file (checked under Spec)
\* ------------------------------------------------------------------------

\* C13 (as claimed): when the last visit of a full scan ends and the scan
\* has counted no error, the file just visited, if it was embedded or found
\* unchanged (so its content has at least one chunk), has exactly the Vector
\* Entries of a chunking of its current content, whatever failures, watcher
\* events, deletions and re-creations came before the scan.
C13_ScanIsSelfHealing ==
    (/\ lastOp.kind = "scan"
     /\ lastOp.outcome \in {"processed", "skipped"}
     /\ session.mode = "scan"
     /\ session.pos = Len(session.files)
     /\ session.errors = 0) =>
        \E chunks \in Chunkings(files[lastOp.path]) \ {<< >>} :
            EntriesAre(lastOp.path, chunks)

\* C14: a create/modify event for an eligible path that arrives less than
\* _DEBOUNCE_SECONDS after the last accepted event for that path is dropped:
\* no collaborator is called and no store and no debounce state changes;
\* an event that arrives later, or first, is accepted, runs the per-file
\* index operation once and becomes the last accepted event of the path.
C14_SecondEventInWindowIsDropped ==
    [][(/\ lastOp'.kind \in {"created", "modified"}
        /\ lastOp'.outcome # "dropped") =>
           IF session.last_event[lastOp'.path] < DebounceTicks
           THEN /\ lastOp'.outcome = "debounced"
                /\ lastOp'.calls = {}
                /\ UNCHANGED <<histVars, chroma, session>>
           ELSE /\ lastOp'.outcome \in {"processed", "empty", "error"}
                /\ session'.last_event[lastOp'.path] = 0]_vars

\* A second event for the path arrived within the window of an accepted
\* one, whose index operation is in the index.
C14_Witness ==
    /\ lastOp.kind = "modified"
    /\ lastOp.outcome = "debounced"
    /\ session.last_event[lastOp.path] < DebounceTicks
    /\ FileEntries(chroma, lastOp.path, get_folder(lastOp.path)) # {}

\* C15: handling a delete event creates, changes and removes no Snapshot
\* and no File Registry Entry; when the event is for an eligible file and
\* the Vector Index answers, no Vector Entry of the file is left; a dropped
\* event leaves the index as it was.
C15_DeleteLeavesHistory ==
    [][lastOp'.kind = "deleted" =>
           /\ UNCHANGED <<file_registry, snapshots>>
           /\ lastOp'.outcome = "removed" =>
                  /\ {e \in chroma' : e.file_path = lastOp'.path} = {}
                  /\ {e \in chroma' : e.file_path # lastOp'.path}
                         = {e \in chroma : e.file_path # lastOp'.path}
           /\ lastOp'.outcome = "dropped" => UNCHANGED chroma]_vars

\* A delete event removed the entries of a file that has Snapshots.
C15_Witness ==
    /\ lastOp.kind = "deleted"
    /\ lastOp.outcome = "removed"
    /\ lastOp.path \in DOMAIN file_registry
    /\ lastOp.path \in DOMAIN embed_checksums
    /\ FileEntries(chroma, lastOp.path, get_folder(lastOp.path)) = {}

\* C16: no watcher event, whether its processing fails or not, ends the
\* watch session or changes its configuration or the debounce state of
\* another path; and in every state of a watch session, those that failed
\* events lead to included, an event is handled by the normal rules:
\* dropped when its path is ineligible, otherwise (create/modify) debounced
\* exactly when the last accepted event for its path, failed or not, is
\* less than _DEBOUNCE_SECONDS old, and processed when it is not.
C16_FailureStaysInHandler ==
    [][lastOp'.kind \in {"created", "modified", "deleted"} =>
           /\ session'.mode = "watch"
           /\ session'.cfg = session.cfg
           /\ \A q \in Paths \ {lastOp'.path} :
                  session'.last_event[q] = session.last_event[q]
           /\ lastOp'.kind # "deleted" =>
                  /\ should_ignore(lastOp'.path) => lastOp'.outcome = "dropped"
                  /\ lastOp'.outcome # "dropped" =>
                         (lastOp'.outcome = "debounced"
                            <=> session.last_event[lastOp'.path]
                                   < DebounceTicks)
                  /\ lastOp'.outcome \in {"dropped", "debounced", "processed",
                                          "empty", "error"}
           /\ lastOp'.kind = "deleted" =>
                  /\ should_ignore(lastOp'.path) => lastOp'.outcome = "dropped"
                  /\ lastOp'.outcome \in {"dropped", "removed", "swallowed"}]_vars

\* The processing of an accepted event has failed and the handler goes on
\* watching.
C16_Witness ==
    /\ lastOp.kind \in {"created", "modified"}
    /\ lastOp.outcome = "error"
    /\ session.mode = "watch"
    /\ session.last_event[lastOp.path] = 0

\* C17 (as claimed): an accepted create/modify event that indexed the file
\* leaves what a full-scan visit of the same content under the same
\* configuration leaves: the Vector Entries of the chunks the configured
\* strategy makes of the content, and an Embed-Checksum Record equal to the
\* hash of the content.
C17_DriversShareIndexFile ==
    (/\ lastOp.kind \in {"created", "modified"}
     /\ lastOp.outcome = "processed") =>
        /\ \E parser_ok \in BOOLEAN :
               EntriesAre(lastOp.path,
                          ScanChunks(files[lastOp.path], session.cfg, parser_ok))
        /\ get_embed_checksum(embed_checksums, lastOp.path)
               = _checksum(files[lastOp.path])

\* An event of kind created, modified or deleted was handled in this step,
\* for a file (not a directory) at an eligible path.
EligibleEventStep(kinds) ==
    /\ lastOp'.kind \in kinds
    /\ ~lastOp'.is_directory
    /\ ~should_ignore(lastOp'.path)

\* C26: a create/modify event for an eligible file that is dropped by the
\* debounce rule leaves every per-path timestamp as it was; an event that
\* arrives within the window of the last accepted one is dropped, and one
\* that arrives _DEBOUNCE_SECONDS or more after it is accepted and becomes
\* the last accepted event, whatever was dropped in between.
C26_DroppedEventKeepsTimestamp ==
    [][EligibleEventStep({"created", "modified"}) =>
           /\ lastOp'.outcome = "debounced" =>
                  session'.last_event = session.last_event
           /\ session.last_event[lastOp'.path] < DebounceTicks =>
                  lastOp'.outcome = "debounced"
           /\ session.last_event[lastOp'.path] >= DebounceTicks =>
                  /\ lastOp'.outcome \in {"processed", "empty", "error"}
                  /\ session'.last_event[lastOp'.path] = 0]_vars

\* An event was dropped later in the window of an accepted one, and the
\* time since the accepted one still counts.
C26_Witness ==
    /\ lastOp.kind \in {"created", "modified"}
    /\ lastOp.outcome = "debounced"
    /\ session.last_event[lastOp.path] > 0
    /\ session.last_event[lastOp.path] < DebounceTicks

\* C27 (as claimed): a delete event for an eligible file is dropped when an
\* event for the path was accepted less than _DEBOUNCE_SECONDS earlier, and
\* an accepted delete event records its acceptance time.
C27_DebounceCoversDelete ==
    [][EligibleEventStep({"deleted"}) =>
           IF session.last_event[lastOp'.path] < DebounceTicks
           THEN lastOp'.outcome = "debounced"
           ELSE session'.last_event[lastOp'.path] = 0]_vars

\* C28: a directory event and an event for an ineligible path, of any
\* kind, is dropped: it calls no collaborator and leaves the stores, the
\* index and the per-path timestamps as they were.
C28_DroppedBeforeDebounce ==
    [][(/\ lastOp'.kind \in {"created", "modified", "deleted"}
        /\ lastOp'.is_directory \/ should_ignore(lastOp'.path)) =>
           /\ lastOp'.outcome = "dropped"
           /\ lastOp'.calls = {}
           /\ UNCHANGED <<histVars, chroma, session>>]_vars

\* A directory event for an eligible path was dropped inside the window of
\* an accepted event for that path.
C28_Witness ==
    /\ lastOp.kind \in {"created", "modified"}
    /\ lastOp.is_directory
    /\ ~should_ignore(lastOp.path)
    /\ lastOp.outcome = "dropped"
    /\ session.last_event[lastOp.path] < DebounceTicks

\* C29 (as claimed): an accepted create/modify event for an eligible file
\* of non-blank content, when no embedding, index or storage call fails of
\* itself, leaves a Snapshot of the content read as the file's current
\* version when history is enabled, and the chunks of that content as the
\* file's Vector Entries.
C29_AcceptedEventIndexesFile ==
    (/\ lastOp.kind \in {"created", "modified"}
     /\ lastOp.outcome \notin {"dropped", "debounced"}
     /\ lastOp.cause \in {"none", "thread"}
     /\ lastOp.path \in DOMAIN files
     /\ ~IsBlankContent(files[lastOp.path])) =>
        /\ session.cfg.history_enabled =>
               \E row \in SnapshotRows(snapshots, lastOp.path,
                                       GetLatestVersion(file_registry,
                                                        lastOp.path)) :
                   row.content = files[lastOp.path]
        /\ \E chunks \in Chunkings(files[lastOp.path]) :
               EntriesAre(lastOp.path, chunks)

\* C32 (as claimed): a full-scan visit of a file whose content is empty or
\* whitespace-only, under either chunking strategy, calls neither the
\* Embedding Provider nor the Vector Index and leaves no entry of the file.
C32_BlankFileIsNotEmbedded ==
    (/\ lastOp.kind = "scan"
     /\ lastOp.path \in DOMAIN files
     /\ \A k \in 1..Len(files[lastOp.path]) : files[lastOp.path][k] = Blank) =>
        /\ lastOp.calls \cap {"embed", "upsert"} = {}
        /\ lastOp.outcome \in {"empty", "skipped", "error"}

\* The last operation called the Embedding Provider and the call raised.
EmbedFailed(op) ==
    /\ op.kind \in {"scan", "created", "modified"}
    /\ op.outcome = "error"
    /\ "embed" \in op.calls
    /\ "upsert" \notin op.calls

\* C37: a scan visit or watcher event whose Embedding Provider call fails
\* leaves the Vector Index and the Embed-Checksum Records as they were; the
\* history changes by nothing or by the snapshot of the file's content.
C37_EmbedFailureKeepsIndex ==
    [][EmbedFailed(lastOp') =>
          /\ chroma' = chroma
          /\ embed_checksums' = embed_checksums
          /\ files' = files
          /\ LET s == SnapshotFile(file_registry, snapshots, lastOp'.path,
                                   files[lastOp'.path])
             IN \/ /\ file_registry' = file_registry
                   /\ snapshots' = snapshots
                \/ /\ "snapshot" \in lastOp'.calls
                   /\ file_registry' = s.registry
                   /\ snapshots' = s.snapshots]_vars

\* The Embedding Provider failed for a file that has Vector Entries of an
\* older content, after the snapshot of the new content was taken.
C37_Witness ==
    /\ EmbedFailed(lastOp)
    /\ "snapshot" \in lastOp.calls
    /\ lastOp.path \in DOMAIN files
    /\ FileEntries(chroma, lastOp.path, get_folder(lastOp.path)) # {}
    /\ \E e \in FileEntries(chroma, lastOp.path, get_folder(lastOp.path)) :
           e.total_chunks # Len(ScanChunks(files[lastOp.path], session.cfg, TRUE))
              \/ e.total_chunks # Len(WatchChunks(files[lastOp.path]))

\* ------------------------------------------------------------------------
\* Claims about ask (checked under SpecAsk)
\* ------------------------------------------------------------------------

\* The last ask call returned a result.
AskReturned == lastAsk.calls # << >> /\ lastAsk.raised = "none"

\* The positions of the retrieved entries whose score reaches the threshold.
RelevantAt ==
    {i \in 1..Len(lastAsk.results) :
        lastAsk.results[i].score >= lastAsk.threshold}

\* The positions of the context set.
ContextAt ==
    IF RelevantAt # {} THEN RelevantAt ELSE 1..Len(lastAsk.results)

\* C18: when ask returns, relevant_count is the number of retrieved entries
\* with score >= threshold, total_retrieved the number of retrieved entries,
\* and sources lists, in retrieval order, exactly the entries of the context
\* set: the relevant ones when there is one, all retrieved ones otherwise.
C18_AskPartitionsByThreshold ==
    AskReturned =>
        /\ lastAsk.relevant_count = Cardinality(RelevantAt)
        /\ lastAsk.total_retrieved = Len(lastAsk.results)
        /\ Len(lastAsk.sources) = Cardinality(ContextAt)
        /\ \E at \in [1..Len(lastAsk.sources) -> ContextAt] :
               /\ \A i, j \in 1..Len(lastAsk.sources) : i < j => at[i] < at[j]
               /\ \A i \in 1..Len(lastAsk.sources) :
                      /\ lastAsk.sources[i].file_path
                             = lastAsk.results[at[i]].file_path
                      /\ lastAsk.sources[i].chunk_index
                             = lastAsk.results[at[i]].chunk_index
                      /\ lastAsk.sources[i].score = lastAsk.results[at[i]].score

\* ask returned some of the retrieved entries as relevant and left out one
\* whose score is below the threshold while another's equals it.
C18_Witness ==
    /\ AskReturned
    /\ 0 < lastAsk.relevant_count
    /\ lastAsk.relevant_count < lastAsk.total_retrieved
    /\ Len(lastAsk.sources) = lastAsk.relevant_count
    /\ \E i \in RelevantAt : lastAsk.results[i].score = lastAsk.threshold

\* The Vector Entries of the collections the last ask call searched.
AvailableInScope ==
    {e \in chroma : e.collection \in Searched(chroma, lastAsk.folder)}

\* C19: when ask returns, every retrieved score is below the threshold and
\* no searched collection threw, relevant_count is 0 and sources has
\* min(top_k, number of entries in the searched collections) entries, with
\* a folder scope and without.
C19_FallbackKeepsAllRetrieved ==
    (/\ AskReturned
     /\ lastAsk.failed = {}
     /\ \A i \in 1..Len(lastAsk.results) :
            lastAsk.results[i].score < lastAsk.threshold) =>
        /\ lastAsk.relevant_count = 0
        /\ Len(lastAsk.sources)
               = Min(lastAsk.top_k, Cardinality(AvailableInScope))

\* Nothing retrieved across all collections reached the threshold, and the
\* sources are top_k of the more entries there are.
C19_Witness ==
    /\ AskReturned
    /\ lastAsk.failed = {}
    /\ lastAsk.folder = None
    /\ lastAsk.relevant_count = 0
    /\ Len(lastAsk.sources) = lastAsk.top_k
    /\ 1 < lastAsk.top_k
    /\ lastAsk.top_k < Cardinality(AvailableInScope)
    /\ Cardinality(Collections(chroma)) > 1

\* A folder-scoped search fell back to all the entries of its collection.
C19_WitnessScoped ==
    /\ AskReturned
    /\ lastAsk.folder = <<"s">>
    /\ lastAsk.relevant_count = 0
    /\ Len(lastAsk.sources) = Cardinality(AvailableInScope)
    /\ Len(lastAsk.sources) > 1
    /\ Cardinality(chroma) > Len(lastAsk.sources)

\* C20 (as claimed): when ask fails because the Generation Provider
\* credential is absent, it has made no Embedding Provider call, no Vector
\* Index query and no Generation Provider request.
C20_CredentialCheckedFirst ==
    lastAsk.raised = "EnvironmentError" => lastAsk.calls = << >>

\* ------------------------------------------------------------------------
\* Claims about the chunkers (checked under SpecChunk)
\* ------------------------------------------------------------------------

\* The content of the last chunker call has a line that is not blank.
NonBlankContent == \E k \in 1..Len(lastChunk.content) : lastChunk.content[k] # Blank

\* The lines chunk i of chunks and the chunk after it share.
SharedLines(chunks, i) ==
    {l \in chunks[i].start_line..chunks[i].end_line :
        l \in chunks[i + 1].start_line..chunks[i + 1].end_line}

\* C21: for a non-blank content and chunk_size > overlap >= 0, the line
\* ranges of chunk_content's chunks start at line 1, end at the last line,
\* go forward without a gap, and consecutive chunks share exactly overlap
\* lines, except the last pair, which shares at most overlap lines.
C21_ChunksCoverInOrder ==
    (/\ lastChunk.applied = "chunk_content"
     /\ NonBlankContent
     /\ lastChunk.chunk_size > lastChunk.overlap) =>
        LET r == lastChunk.raw
            n == Len(r)
        IN /\ n >= 1
           /\ r[1].start_line = 1
           /\ r[n].end_line = Len(lastChunk.content)
           /\ \A i \in 1..(n - 1) :
                  /\ r[i + 1].start_line > r[i].start_line
                  /\ r[i + 1].start_line <= r[i].end_line + 1
                  /\ r[i + 1].end_line >= r[i].end_line
           /\ \A i \in 1..(n - 2) :
                  Cardinality(SharedLines(r, i)) = lastChunk.overlap
           /\ n >= 2 =>
                  Cardinality(SharedLines(r, n - 1)) <= lastChunk.overlap

\* chunk_content made three chunks with an overlap.
C21_Witness ==
    /\ lastChunk.applied = "chunk_content"
    /\ NonBlankContent
    /\ lastChunk.chunk_size > lastChunk.overlap
    /\ lastChunk.overlap >= 1
    /\ Len(lastChunk.raw) >= 3

\* C22: chunk_content returns no chunk exactly when the content is empty or
\* whitespace-only; chunk i (from 0) carries index i and the text of the
\* lines start_line..end_line of the content, counted from 1, both included.
C22_ChunksCarryTheirLines ==
    lastChunk.applied = "chunk_content" =>
        /\ (lastChunk.raw = << >>) <=> ~NonBlankContent
        /\ \A i \in 1..Len(lastChunk.raw) :
               LET ch == lastChunk.raw[i]
               IN /\ ch.index = i - 1
                  /\ 1 <= ch.start_line
                  /\ ch.start_line <= ch.end_line
                  /\ ch.end_line <= Len(lastChunk.content)
                  /\ ch.text = SubSeq(lastChunk.content, ch.start_line,
                                      ch.end_line)

\* chunk_content made several chunks of a content that has a blank line.
C22_Witness ==
    /\ lastChunk.applied = "chunk_content"
    /\ Len(lastChunk.raw) >= 2
    /\ \E k \in 1..Len(lastChunk.content) : lastChunk.content[k] = Blank

\* chunk_content returned nothing for a whitespace-only content of two lines.
C22_WitnessBlank ==
    /\ lastChunk.applied = "chunk_content"
    /\ Len(lastChunk.content) = 2
    /\ lastChunk.raw = << >>

\* C23: without a Structural Parser for the file kind, or when parsing
\* throws, smart_chunk returns the chunks of chunk_content for the same
\* content, chunk_size and overlap: as many, with the same texts and line
\* ranges, each of kind "chunk".
C23_FallbackIsFixedSizeChunker ==
    (lastChunk.applied = "smart_chunk" /\ ~lastChunk.parser_ok) =>
        LET fixed == chunk_content(lastChunk.content, lastChunk.chunk_size,
                                   lastChunk.overlap)
        IN /\ Len(lastChunk.smart) = Len(fixed)
           /\ \A i \in 1..Len(fixed) :
                  /\ lastChunk.smart[i].text = fixed[i].text
                  /\ lastChunk.smart[i].start_line = fixed[i].start_line
                  /\ lastChunk.smart[i].end_line = fixed[i].end_line
                  /\ lastChunk.smart[i].kind = "chunk"

\* smart_chunk fell back on a content that holds a definition and made
\* several chunks of it.
C23_Witness ==
    /\ lastChunk.applied = "smart_chunk"
    /\ ~lastChunk.parser_ok
    /\ \E k \in 1..Len(lastChunk.content) : lastChunk.content[k] \in {"c", "d"}
    /\ Len(lastChunk.smart) >= 2

\* C24 (as claimed): for a parsed file, the line ranges of smart_chunk's
\* chunks are pairwise disjoint and every non-blank line is in exactly one.
C24_StructuralChunksPartition ==
    (lastChunk.applied = "smart_chunk" /\ lastChunk.parser_ok) =>
        LET r == lastChunk.smart
            holds(i, l) == r[i].start_line <= l /\ l <= r[i].end_line
        IN /\ \A i, j \in 1..Len(r) :
                  i # j => ~\E l \in 1..Len(lastChunk.content) :
                               holds(i, l) /\ holds(j, l)
           /\ \A l \in 1..Len(lastChunk.content) :
                  lastChunk.content[l] # Blank =>
                      Cardinality({i \in 1..Len(r) : holds(i, l)}) = 1

\* C30 (as claimed): for chunk_size > overlap >= 0, every chunk of
\* chunk_content after the first holds a line beyond the end_line of the
\* chunk before it.
C30_NoChunkIsPurelyOverlap ==
    (/\ lastChunk.applied = "chunk_content"
     /\ lastChunk.chunk_size > lastChunk.overlap) =>
        \A i \in 2..Len(lastChunk.raw) :
            lastChunk.raw[i].end_line > lastChunk.raw[i - 1].end_line

\* The content of the last chunker call has a definition and no nested one.
PlainDefinitions ==
    /\ \E k \in 1..Len(lastChunk.content) : lastChunk.content[k] \in {"c", "d"}
    /\ \A k \in 1..Len(lastChunk.content) : lastChunk.content[k] \notin {"m", "n"}

\* Line l of that content is a line of a definition.
InDefinition(l) == lastChunk.content[l] \in {"c", "d", "i"}

\* The last line of the definition that starts at line l.
DefinitionEnd(l) ==
    CHOOSE e \in l..Len(lastChunk.content) :
        /\ \A k \in (l + 1)..e : lastChunk.content[k] = "i"
        /\ e = Len(lastChunk.content) \/ lastChunk.content[e + 1] # "i"

\* The stretches of lines between the definitions, before the first and
\* after the last: <<first line, last line>>.
Gaps ==
    {g \in (1..Len(lastChunk.content)) \X (1..Len(lastChunk.content)) :
        /\ g[1] <= g[2]
        /\ \A k \in g[1]..g[2] : ~InDefinition(k)
        /\ g[1] = 1 \/ InDefinition(g[1] - 1)
        /\ g[2] = Len(lastChunk.content) \/ InDefinition(g[2] + 1)}

\* C33: for a parsed content whose definitions are not nested, smart_chunk's
\* chunks are in ascending line order; every definition is exactly one
\* chunk, of its kind, with its lines; and every stretch of lines outside
\* the definitions (before one, or after the last) is one chunk of kind
\* module exactly when it has a non-blank line.
C33_StructuralChunksFollowDefinitions ==
    (/\ lastChunk.applied = "smart_chunk"
     /\ lastChunk.parser_ok
     /\ PlainDefinitions) =>
        LET r == lastChunk.smart
            c == lastChunk.content
        IN /\ \A i \in 1..(Len(r) - 1) : r[i].end_line < r[i + 1].start_line
           /\ \A l \in 1..Len(c) :
                  c[l] \in {"c", "d"} =>
                      /\ Cardinality({i \in 1..Len(r) : r[i].start_line = l}) = 1
                      /\ \E i \in 1..Len(r) :
                             /\ r[i].start_line = l
                             /\ r[i].end_line = DefinitionEnd(l)
                             /\ r[i].text = SubSeq(c, l, DefinitionEnd(l))
                             /\ r[i].kind = IF c[l] = "c" THEN "class"
                                            ELSE "function"
           /\ \A i \in 1..Len(r) :
                  IF r[i].kind = "module"
                  THEN <<r[i].start_line, r[i].end_line>> \in Gaps
                  ELSE c[r[i].start_line] \in {"c", "d"}
           /\ \A g \in Gaps :
                  (\E k \in g[1]..g[2] : c[k] # Blank)
                     <=> \E i \in 1..Len(r) :
                            /\ r[i].kind = "module"
                            /\ r[i].start_line = g[1]
                            /\ r[i].end_line = g[2]

\* smart_chunk made a module chunk of the lines before a definition and
\* none of the blank lines after it.
C33_Witness ==
    /\ lastChunk.applied = "smart_chunk"
    /\ lastChunk.parser_ok
    /\ PlainDefinitions
    /\ \E i \in 1..Len(lastChunk.smart) : lastChunk.smart[i].kind = "module"
    /\ \E g \in Gaps : \A k \in g[1]..g[2] : lastChunk.content[k] = Blank

\* ------------------------------------------------------------------------
\* Claims about agent memories (checked under SpecMemory)
\* ------------------------------------------------------------------------

\* The hits VectorStore.query builds of the entries remember stored.
MemoryHits ==
    {Hit(e, d) : e \in {m \in chroma : m.collection = AgentMemory /\
                                       \E row \in memories : m.id[1] = row.id},
                 d \in Dists}

\* C25 (as claimed): VectorStore.query, with a folder scope or without,
\* returns no entry that remember stored.
C25_QueryReturnsNoMemory ==
    \A i \in 1..Len(lastAsk.results) : lastAsk.results[i] \notin MemoryHits

\* ------------------------------------------------------------------------
\* Claims about storage errors in the History Store (checked under
\* SpecStorage)
\* ------------------------------------------------------------------------

\* The versions of the Snapshots of a file.
VersionsOf(p) == {s.version : s \in {t \in snapshots : t.file_path = p}}

\* C36 (as claimed): the current_version of every File Registry Entry is at
\* least 1 and is the version of a Snapshot of the file, and the versions
\* of the file's Snapshots are 1..max without a gap.
C36_PointerNamesSnapshotNoGaps ==
    /\ \A p \in DOMAIN file_registry :
           /\ file_registry[p].current_version >= 1
           /\ file_registry[p].current_version \in VersionsOf(p)
    /\ \A p \in Paths :
           VersionsOf(p) = 1..Cardinality(VersionsOf(p))

\* ------------------------------------------------------------------------
\* Claims about concurrent events (checked under SpecDebounce)
\* ------------------------------------------------------------------------

\* Both threads have returned from _is_debounced for one path, with times
\* less than the debounce window apart.
TwoEventsInWindow ==
    /\ \A t \in Threads : threads[t].pc = "done"
    /\ threads["t1"].path = threads["t2"].path
    /\ threads["t1"].now - threads["t2"].now < DebounceTicks
    /\ threads["t2"].now - threads["t1"].now < DebounceTicks

\* The threads whose event was accepted.
Accepted == {t \in Threads : threads[t].ret = "accepted"}

\* C34: of two events for one path that the two threads handle with times
\* less than the debounce window apart, never both are accepted, under
\* every interleaving of the threads; and exactly one is accepted when the
\* event accepted before them is at least the window older than both.
C34_ConcurrentEventsOneAccepted ==
    TwoEventsInWindow =>
        /\ Cardinality(Accepted) <= 1
        /\ (\A t \in Threads : threads[t].now - handler.prior >= DebounceTicks)
              => Cardinality(Accepted) = 1

\* The two threads were inside _is_debounced at the same time, in the order
\* opposite to their clock readings, and one of the events was accepted.
C34_Witness ==
    /\ TwoEventsInWindow
    /\ Cardinality(Accepted) = 1
    /\ threads["t1"].ret = "accepted"
    /\ threads["t1"].now > threads["t2"].now
    /\ threads["t2"].last = threads["t1"].now
    /\ \A t \in Threads : threads[t].now - handler.prior >= DebounceTicks

\* ------------------------------------------------------------------------
\* Claims about concurrent replacements (checked under SpecUpsert)
\* ------------------------------------------------------------------------

\* C35 (as claimed): when the two operations on the file have ended,
\* neither has failed and the entries of the file are the chunk set one of
\* them wrote.
C35_ConcurrentReplaceIsAtomic ==
    (\A t \in Threads : threads[t].pc = "done") =>
        /\ \A t \in Threads : threads[t].ret = "returned"
        /\ \E t \in Threads :
               FileEntries(chroma, PathSB, get_folder(PathSB))
                  = NewEntries(PathSB, get_folder(PathSB), threads[t].chunks)

\* ------------------------------------------------------------------------
\* Claims about a watch session and its writes (checked under SpecWatch)
\* ------------------------------------------------------------------------

\* The Vector Index holds, for every file, the chunks of its content.
IndexIsCurrent ==
    \A p \in DOMAIN files :
        FileEntries(chroma, p, get_folder(p))
           = NewEntries(p, get_folder(p), WatchChunks(files[p]))

\* C39 (as claimed): in a watch session the writes stop (there are at most
\* MaxWrites of them), and from some time on the Vector Index holds the
\* chunks of the final content of every file.
C39_IndexEventuallyCurrent == <>[]IndexIsCurrent

\* ------------------------------------------------------------------------
\* Claims about folder partitions (checked under SpecPartition)
\* ------------------------------------------------------------------------

\* C38 (as claimed): a query scoped to a folder returns only entries whose
\* folder is that folder.
C38_ScopedQueryStaysInFolder ==
    (lastAsk.calls = <<"query">> /\ lastAsk.folder # None) =>
        \A i \in 1..Len(lastAsk.results) :
            lastAsk.results[i].folder = lastAsk.folder

\* ------------------------------------------------------------------------
\* Claims about the loop of chunk_content (checked under SpecLoop)
\* ------------------------------------------------------------------------

\* C31: for every content, chunk_size >= 1 and overlap >= 0, overlap >=
\* chunk_size included, chunk_content returns; all along, the starts of
\* consecutive chunks differ by max(chunk_size - overlap, 1), every chunk
\* holds at least one line, and there are at most as many chunks as lines.
C31_ChunkContentTerminates ==
    /\ [](LET r == lastChunk.raw
          IN /\ \A i \in 1..(Len(r) - 1) :
                    r[i + 1].start_line - r[i].start_line
                       = Max(lastChunk.chunk_size - lastChunk.overlap, 1)
             /\ \A i \in 1..Len(r) :
                    r[i].start_line <= r[i].end_line /\ r[i].text # << >>
             /\ Len(r) <= Len(lastChunk.content))
    /\ <>(lastChunk.applied = "chunk_content")

\* chunk_content returned several chunks for an overlap that is not below
\* the chunk_size.
C31_Witness ==
    /\ lastChunk.applied = "chunk_content"
    /\ lastChunk.overlap >= lastChunk.chunk_size
    /\ Len(lastChunk.raw) >= 3

====
